---- MODULE Spec2Model ----
(***************************************************************************)
(* Order-book store of the DEX liquidity aggregator                        *)
(* (backend/orderbook_cache.py, backend/orderbook_manager.py,              *)
(* backend/models.py, backend/liquidity_calculator.py) and the cadence     *)
(* broadcaster that reads it (backend/main.py).                            *)
(*                                                                         *)
(* Units.  Prices are even integers, so that (best_bid + best_ask) / 2 is  *)
(* exact, as it is in binary floating point for such values.  Sizes are    *)
(* integers, zero and negative included.  One unit of notional (price *    *)
(* size) stands for 500 USD; one unit of time stands for 3600 seconds.     *)
(***************************************************************************)
EXTENDS Integers, Sequences, FiniteSets, TLC

(***************************************************************************)
(* Bounds of the model.                                                    *)
(***************************************************************************)
\* prices on the grid 2, 4, .., 2 * MaxPrice
MaxPrice == 2
\* sizes carried by a frame range over -1 .. MaxSize
MaxSize == 2
\* a frame carries at most MaxLevels levels, both sides together
MaxLevels == 2
\* timestamps carried by a frame range over 1 .. MaxTs
MaxTs == 2
\* timestamps carried by the frames of Spec, which takes every frame of Frames
MaxStoreTs == 1
\* number of writes (initialize / update) applied to the store in a run
MaxUpdates == 2
\* number of tasks that call the store concurrently
MaxTasks == 3
\* the broadcaster starts an iteration while fewer than MaxSent frames were sent
MaxSent == 2

Prices == {2 * i : i \in 1..MaxPrice}
Sizes == (0 - 1)..MaxSize
Timestamps == 1..MaxTs
StoreTimestamps == 1..MaxStoreTs

\* models.py OrderBookLevel
Level == [price : Prices, size : Sizes]

\* the (bids, asks) pairs an adapter can hand to the store
Frames ==
  UNION {[bids : [1..nb -> Level], asks : [1..na -> Level]] :
           <<nb, na>> \in {p \in (0..MaxLevels) \X (0..MaxLevels) : p[1] + p[2] <= MaxLevels}}

\* the (venue, market) keys of the store: _get_key
Keys == {<<"hyperliquid", "BTC">>, <<"lighter", "market_1">>}

\* Optional[float] without a value; no price, mid or spread of the model is odd
None == 0 - 1

(***************************************************************************)
(* backend/orderbook_cache.py: OrderbookCache                              *)
(***************************************************************************)
\* a price -> size dict is a function whose domain is the set of stored prices
EmptyMap == [p \in {} |-> 0]

MapSet(m, price, size) == [q \in DOMAIN m \cup {price} |-> IF q = price THEN size ELSE m[q]]

MapPop(m, price) == [q \in DOMAIN m \ {price} |-> m[q]]

\* OrderbookCache.__init__
NewCache == [bids |-> EmptyMap, asks |-> EmptyMap,
             last_update_timestamp |-> 0, initialized |-> FALSE]

\* the loops of initialize: self._bids[level.price] = level.size, in list order
RECURSIVE StoreLevels(_, _, _)
StoreLevels(m, levels, i) ==
  IF i > Len(levels) THEN m
  ELSE StoreLevels(MapSet(m, levels[i].price, levels[i].size), levels, i + 1)

\* initialize without the two clear() calls
CacheInitializeNoClear(cache, bids, asks, timestamp) ==
  [bids |-> StoreLevels(cache.bids, bids, 1),
   asks |-> StoreLevels(cache.asks, asks, 1),
   last_update_timestamp |-> timestamp,
   initialized |-> TRUE]

\* OrderbookCache.initialize
CacheInitialize(cache, bids, asks, timestamp) ==
  [bids |-> StoreLevels(EmptyMap, bids, 1),
   asks |-> StoreLevels(EmptyMap, asks, 1),
   last_update_timestamp |-> timestamp,
   initialized |-> TRUE]

\* an iteration that removes on size < 0 only
ApplyLevelKeepsZero(m, level) ==
  IF level.size < 0 THEN MapPop(m, level.price)
  ELSE MapSet(m, level.price, level.size)

\* one iteration of the loops of update
ApplyLevel(m, level) ==
  IF level.size <= 0 THEN MapPop(m, level.price)
  ELSE MapSet(m, level.price, level.size)

\* the loops of update, in list order
RECURSIVE ApplyDiff(_, _, _)
ApplyDiff(m, levels, i) ==
  IF i > Len(levels) THEN m
  ELSE ApplyDiff(ApplyLevel(m, levels[i]), levels, i + 1)

\* OrderbookCache.update
CacheUpdate(cache, bids, asks, timestamp) ==
  IF ~cache.initialized THEN CacheInitialize(cache, bids, asks, timestamp)
  ELSE [cache EXCEPT !.bids = ApplyDiff(@, bids, 1),
                     !.asks = ApplyDiff(@, asks, 1),
                     !.last_update_timestamp = timestamp]

SetMax(S) == CHOOSE x \in S : \A y \in S : y <= x

SetMin(S) == CHOOSE x \in S : \A y \in S : x <= y

\* sorted(self._bids.items(), key=price, reverse=True) as OrderBookLevel list
RECURSIVE SortedDescending(_)
SortedDescending(m) ==
  IF DOMAIN m = {} THEN <<>>
  ELSE LET p == SetMax(DOMAIN m)
       IN <<[price |-> p, size |-> m[p]]>> \o SortedDescending(MapPop(m, p))

\* sorted(self._asks.items(), key=price) as OrderBookLevel list
RECURSIVE SortedAscending(_)
SortedAscending(m) ==
  IF DOMAIN m = {} THEN <<>>
  ELSE LET p == SetMin(DOMAIN m)
       IN <<[price |-> p, size |-> m[p]]>> \o SortedAscending(MapPop(m, p))

\* get_sorted_levels without reverse=True for the bids
GetSortedLevelsBidsAscending(cache) ==
  [bids |-> SortedAscending(cache.bids), asks |-> SortedAscending(cache.asks)]

\* OrderbookCache.get_sorted_levels (limit=None)
GetSortedLevels(cache) ==
  [bids |-> SortedDescending(cache.bids), asks |-> SortedAscending(cache.asks)]

\* OrderbookCache.is_initialized
IsInitialized(cache) == cache.initialized

\* OrderbookCache.has_valid_book
HasValidBook(cache) ==
  cache.initialized /\ DOMAIN cache.bids # {} /\ DOMAIN cache.asks # {}

(***************************************************************************)
(* backend/models.py: OrderBookSnapshot                                    *)
(***************************************************************************)
\* OrderBookSnapshot.mid_price
MidPrice(snapshot) ==
  IF Len(snapshot.bids) > 0 /\ Len(snapshot.asks) > 0
  THEN (snapshot.bids[1].price + snapshot.asks[1].price) \div 2
  ELSE None

\* OrderBookSnapshot.spread
Spread(snapshot) ==
  IF Len(snapshot.bids) > 0 /\ Len(snapshot.asks) > 0
  THEN snapshot.asks[1].price - snapshot.bids[1].price
  ELSE None

\* OrderBookSnapshot.spread_bps, as the pair <<spread * 10000, mid>>; a mid
\* or a spread that is None or 0 is falsy and gives None
SpreadBps(snapshot) ==
  IF /\ MidPrice(snapshot) # None /\ MidPrice(snapshot) # 0
     /\ Spread(snapshot) # None /\ Spread(snapshot) # 0
  THEN <<Spread(snapshot) * 10000, MidPrice(snapshot)>>
  ELSE None

(***************************************************************************)
(* backend/liquidity_calculator.py: LiquidityCalculator                    *)
(* A non-integer quantity q is the pair <<n, d>> with q = n / d, d > 0.    *)
(***************************************************************************)
\* config.py LIQUIDITY_SIZES, in units of 500 USD
LIQUIDITY_SIZES == <<2, 10, 20, 100, 200, 400, 1000, 2000>>

\* the for loop shared by calculate_buy_cost and calculate_sell_cost;
\* w.tokens is total_tokens as a pair
RECURSIVE WalkLevels(_, _, _)
WalkLevels(levels, i, w) ==
  IF i > Len(levels) \/ w.remaining_usd <= 0 THEN w
  ELSE LET level == levels[i]
           level_liquidity_usd == level.price * level.size
       IN IF level_liquidity_usd >= w.remaining_usd
          THEN [remaining_usd |-> 0,
                total_cost |-> w.total_cost + w.remaining_usd,
                tokens |-> <<w.tokens[1] * level.price + w.remaining_usd * w.tokens[2],
                             w.tokens[2] * level.price>>,
                levels_used |-> w.levels_used + 1]
          ELSE WalkLevels(levels, i + 1,
                 [remaining_usd |-> w.remaining_usd - level_liquidity_usd,
                  total_cost |-> w.total_cost + level_liquidity_usd,
                  tokens |-> <<w.tokens[1] + level.size * w.tokens[2], w.tokens[2]>>,
                  levels_used |-> w.levels_used + 1])

\* a metric whose feasibility test allows two whole units of notional unfilled
MetricOfLoose(size_usd, current_price, w, sign) ==
  LET has_tokens == w.tokens[1] > 0
      avg_price == IF has_tokens THEN <<w.total_cost * w.tokens[2], w.tokens[1]>>
                   ELSE <<0, 1>>
      slippage_bps ==
        IF has_tokens /\ current_price > 0
        THEN <<sign * (avg_price[1] - current_price * avg_price[2]) * 10000,
               avg_price[2] * current_price>>
        ELSE <<0, 1>>
  IN [size_usd |-> size_usd,
      total_cost |-> w.total_cost,
      avg_price |-> avg_price,
      slippage_bps |-> slippage_bps,
      levels_used |-> w.levels_used,
      feasible |-> w.remaining_usd <= 2]

\* a metric that reports the requested size as the cost of an unfilled order
MetricOfInflated(size_usd, current_price, w, sign) ==
  LET has_tokens == w.tokens[1] > 0
      cost == IF w.remaining_usd * 50000 <= 1 THEN w.total_cost ELSE size_usd
      avg_price == IF has_tokens THEN <<cost * w.tokens[2], w.tokens[1]>>
                   ELSE <<0, 1>>
      slippage_bps ==
        IF has_tokens /\ current_price > 0
        THEN <<sign * (avg_price[1] - current_price * avg_price[2]) * 10000,
               avg_price[2] * current_price>>
        ELSE <<0, 1>>
  IN [size_usd |-> size_usd,
      total_cost |-> cost,
      avg_price |-> avg_price,
      slippage_bps |-> slippage_bps,
      levels_used |-> w.levels_used,
      feasible |-> w.remaining_usd * 50000 <= 1]

\* the metric built after the loop; sign is 1 for a buy (avg - mid) and -1
\* for a sell (mid - avg); remaining_usd <= 0.01 USD is remaining * 50000 <= 1
MetricOf(size_usd, current_price, w, sign) ==
  LET has_tokens == w.tokens[1] > 0
      avg_price == IF has_tokens THEN <<w.total_cost * w.tokens[2], w.tokens[1]>>
                   ELSE <<0, 1>>
      slippage_bps ==
        IF has_tokens /\ current_price > 0
        THEN <<sign * (avg_price[1] - current_price * avg_price[2]) * 10000,
               avg_price[2] * current_price>>
        ELSE <<0, 1>>
  IN [size_usd |-> size_usd,
      total_cost |-> w.total_cost,
      avg_price |-> avg_price,
      slippage_bps |-> slippage_bps,
      levels_used |-> w.levels_used,
      feasible |-> w.remaining_usd * 50000 <= 1]

EmptySideMetric(size_usd) ==
  [size_usd |-> size_usd, total_cost |-> 0, avg_price |-> <<0, 1>>,
   slippage_bps |-> <<0, 1>>, levels_used |-> 0, feasible |-> FALSE]

WalkStart(size_usd) ==
  [remaining_usd |-> size_usd, total_cost |-> 0, tokens |-> <<0, 1>>, levels_used |-> 0]

\* LiquidityCalculator.calculate_buy_cost
CalculateBuyCost(asks, size_usd, current_price) ==
  IF Len(asks) = 0 THEN EmptySideMetric(size_usd)
  ELSE MetricOf(size_usd, current_price, WalkLevels(asks, 1, WalkStart(size_usd)), 1)

\* LiquidityCalculator.calculate_sell_cost
CalculateSellCost(bids, size_usd, current_price) ==
  IF Len(bids) = 0 THEN EmptySideMetric(size_usd)
  ELSE MetricOf(size_usd, current_price, WalkLevels(bids, 1, WalkStart(size_usd)), 0 - 1)

\* LiquidityCalculator.calculate_all_metrics
CalculateAllMetrics(snapshot) ==
  [exchange |-> snapshot.exchange,
   market |-> snapshot.market,
   timestamp |-> snapshot.timestamp,
   metrics |->
     IF MidPrice(snapshot) = None THEN <<>>
     ELSE [i \in 1..Len(LIQUIDITY_SIZES) |->
             [buy |-> CalculateBuyCost(snapshot.asks, LIQUIDITY_SIZES[i], MidPrice(snapshot)),
              sell |-> CalculateSellCost(snapshot.bids, LIQUIDITY_SIZES[i], MidPrice(snapshot))]]]

\* round(q, 2) of the quantity q = <<n, d>>, in hundredths: the nearest
\* hundredth, the even one on a tie
Round2(q) ==
  LET n == q[1] * 100
      floor == n \div q[2]
      rest == n - floor * q[2]
  IN IF 2 * rest < q[2] THEN floor
     ELSE IF 2 * rest > q[2] THEN floor + 1
     ELSE IF floor % 2 = 0 THEN floor ELSE floor + 1

\* LiquidityCalculator.format_for_frontend; the costs are whole units of
\* notional, which round(.., 2) leaves alone; prices and slippages are in hundredths
FormatForFrontend(metrics) ==
  [i \in DOMAIN metrics.metrics |->
     [buy_cost |-> metrics.metrics[i].buy.total_cost,
      buy_avg_price |-> Round2(metrics.metrics[i].buy.avg_price),
      buy_slippage_bps |-> Round2(metrics.metrics[i].buy.slippage_bps),
      sell_proceeds |-> metrics.metrics[i].sell.total_cost,
      sell_avg_price |-> Round2(metrics.metrics[i].sell.avg_price),
      sell_slippage_bps |-> Round2(metrics.metrics[i].sell.slippage_bps)]]

(***************************************************************************)
(* backend/orderbook_manager.py: OrderBookManager                          *)
(* A Python dict is a function whose domain is the set of its keys.        *)
(***************************************************************************)
VARIABLES
  caches,             \* self._caches: key -> OrderbookCache
  orderbooks,         \* self._orderbooks: key -> OrderBookSnapshot
  orderbooks_keys,    \* the keys of self._orderbooks in insertion order
  liquidity_metrics,  \* self._liquidity_metrics: key -> LiquidityMetrics
  price_history,      \* self._price_history: key -> deque of PricePoint
  locks,              \* self._locks: key -> asyncio.Lock
  tick_tasks,         \* tasks made by asyncio.create_task(self._price_update_callback(..)), oldest first
  applied             \* key -> number of initialize / update calls that returned

storeVars == <<caches, orderbooks, orderbooks_keys, liquidity_metrics, price_history, locks,
               tick_tasks, applied>>

EmptyDict == [k \in {} |-> 0]

DictSet(d, key, value) == [q \in DOMAIN d \cup {key} |-> IF q = key THEN value ELSE d[q]]

\* OrderBookManager(price_history_seconds=3600), in units of 3600 seconds
price_history_seconds == 1

\* asyncio.Lock(): not locked, no waiter
NewLock == [locked |-> FALSE, waiters |-> <<>>]

\* _get_lock without the test for a lock the key already has
GetLockAlwaysNew(ls, key) == DictSet(ls, key, NewLock)

\* _get_lock returning a lock that its caller still holds when the call ends
GetLockStillHeld(ls, key) == DictSet(ls, key, [locked |-> TRUE, waiters |-> <<>>])

\* OrderBookManager._get_lock
GetLock(ls, key) == IF key \in DOMAIN ls THEN ls ELSE DictSet(ls, key, NewLock)

\* OrderBookManager._get_or_create_cache
GetOrCreateCache(cs, key) == IF key \in DOMAIN cs THEN cs ELSE DictSet(cs, key, NewCache)

\* the while loop of _update_price_history: popleft while the oldest entry is before the cutoff
RECURSIVE PruneHistory(_, _)
PruneHistory(history, cutoff_time) ==
  IF Len(history) > 0 /\ Head(history).timestamp < cutoff_time
  THEN PruneHistory(Tail(history), cutoff_time)
  ELSE history

\* OrderBookManager._update_price_history, on the deque of one key
UpdatePriceHistory(history, price, timestamp) ==
  PruneHistory(Append(history, [timestamp |-> timestamp, price |-> price]),
               timestamp - price_history_seconds)

\* a branch that hands the callback the best bid instead of the mid
TickTasksAfterBestBid(tasks, key, snapshot) ==
  Append(tasks, [exchange |-> key[1], market |-> key[2],
                 price |-> snapshot.bids[1].price, timestamp |-> snapshot.timestamp])

\* the mid-price branch of _update_from_cache that schedules the tick callback
\* (the callback is registered at startup, before any adapter is connected)
TickTasksAfter(tasks, key, snapshot) ==
  Append(tasks, [exchange |-> key[1], market |-> key[2],
                 price |-> MidPrice(snapshot), timestamp |-> snapshot.timestamp])

\* OrderBookManager._update_from_cache, given the cache of the key
UpdateFromCache(key, timestamp, cache) ==
  IF ~HasValidBook(cache)
  THEN UNCHANGED <<orderbooks, orderbooks_keys, liquidity_metrics, price_history, tick_tasks>>
  ELSE LET levels == GetSortedLevels(cache)
           snapshot == [exchange |-> key[1], market |-> key[2],
                        bids |-> levels.bids, asks |-> levels.asks,
                        timestamp |-> timestamp]
           mid_price == MidPrice(snapshot)
       IN /\ orderbooks' = DictSet(orderbooks, key, snapshot)
          /\ orderbooks_keys' = IF key \in DOMAIN orderbooks THEN orderbooks_keys
                                ELSE Append(orderbooks_keys, key)
          /\ IF mid_price # None
             THEN /\ price_history' =
                       DictSet(price_history, key,
                               UpdatePriceHistory(IF key \in DOMAIN price_history
                                                  THEN price_history[key] ELSE <<>>,
                                                  mid_price, timestamp))
                  /\ tick_tasks' = TickTasksAfter(tick_tasks, key, snapshot)
             ELSE UNCHANGED <<price_history, tick_tasks>>
          /\ liquidity_metrics' = DictSet(liquidity_metrics, key, CalculateAllMetrics(snapshot))

\* the cache mutation of initialize_orderbook (lines 113-116)
InitializeCache(cs, key, bids, asks, timestamp) ==
  LET created == GetOrCreateCache(cs, key)
  IN DictSet(created, key, CacheInitialize(created[key], bids, asks, timestamp))

\* the cache mutation of update_orderbook (lines 158-165)
UpdateCache(cs, key, bids, asks, timestamp, is_snapshot) ==
  LET created == GetOrCreateCache(cs, key)
  IN DictSet(created, key,
             IF is_snapshot \/ ~IsInitialized(created[key])
             THEN CacheInitialize(created[key], bids, asks, timestamp)
             ELSE CacheUpdate(created[key], bids, asks, timestamp))

TotalApplied == LET RECURSIVE Sum(_)
                    Sum(S) == IF S = {} THEN 0
                              ELSE LET k == CHOOSE x \in S : TRUE
                                   IN applied[k] + Sum(S \ {k})
                IN Sum(Keys)

\* the body of the critical section of initialize_orderbook, then return True
InitializeBody(key, bids, asks, timestamp) ==
  /\ caches' = InitializeCache(caches, key, bids, asks, timestamp)
  /\ UpdateFromCache(key, timestamp, caches'[key])
  /\ applied' = [applied EXCEPT ![key] = @ + 1]

\* the body of the critical section of update_orderbook, then return True
UpdateBody(key, bids, asks, timestamp, is_snapshot) ==
  /\ caches' = UpdateCache(caches, key, bids, asks, timestamp, is_snapshot)
  /\ UpdateFromCache(key, timestamp, caches'[key])
  /\ applied' = [applied EXCEPT ![key] = @ + 1]

StoreInit ==
  /\ caches = EmptyDict
  /\ orderbooks = EmptyDict
  /\ orderbooks_keys = <<>>
  /\ liquidity_metrics = EmptyDict
  /\ price_history = EmptyDict
  /\ locks = EmptyDict
  /\ tick_tasks = <<>>
  /\ applied = [k \in Keys |-> 0]

(***************************************************************************)
(* The store driven by its three call sites in connection_manager.py.  On  *)
(* the event loop a call whose lock is free runs to its return without     *)
(* suspending (no await inside the critical section suspends), so a call,  *)
(* from _get_lock to its return, is one step.                              *)
(***************************************************************************)
VARIABLE call  \* the arguments of the call to the store that returned last

NoCall == [op |-> "none", key |-> <<"", "">>, bids |-> <<>>, asks |-> <<>>,
           timestamp |-> 0, is_snapshot |-> FALSE]

HyperliquidKey == <<"hyperliquid", "BTC">>

LighterKey == <<"lighter", "market_1">>

\* OrderBookManager.initialize_orderbook
InitializeOrderbook(key, frame, timestamp) ==
  /\ locks' = GetLock(locks, key)
  /\ InitializeBody(key, frame.bids, frame.asks, timestamp)
  /\ call' = [op |-> "initialize", key |-> key, bids |-> frame.bids, asks |-> frame.asks,
              timestamp |-> timestamp, is_snapshot |-> TRUE]

\* OrderBookManager.update_orderbook
UpdateOrderbook(key, frame, timestamp, is_snapshot) ==
  /\ locks' = GetLock(locks, key)
  /\ UpdateBody(key, frame.bids, frame.asks, timestamp, is_snapshot)
  /\ call' = [op |-> "update", key |-> key, bids |-> frame.bids, asks |-> frame.asks,
              timestamp |-> timestamp, is_snapshot |-> is_snapshot]

\* ConnectionManager._handle_hyperliquid_update: every frame of venue H is a snapshot
HandleHyperliquidUpdate(frame, timestamp) ==
  UpdateOrderbook(HyperliquidKey, frame, timestamp, TRUE)

\* ConnectionManager._handle_lighter_update: every stream frame of venue L is a diff
HandleLighterUpdate(frame, timestamp) ==
  UpdateOrderbook(LighterKey, frame, timestamp, FALSE)

\* ConnectionManager._periodic_rest_fetch and subscribe_lighter: a REST book of venue L
RestSnapshot(frame, timestamp) ==
  InitializeOrderbook(LighterKey, frame, timestamp)

\* the bound of a run: fewer than MaxUpdates writes so far
CanWrite == TotalApplied < MaxUpdates

(***************************************************************************)
(* The tasks of the event loop that call the store, and the clients and    *)
(* the cadence broadcaster of backend/main.py.                             *)
(***************************************************************************)
VARIABLES
  task,                  \* task -> the call to the store it is in, and where it is in it
  connected_clients,     \* main.py connected_clients
  client_subscriptions,  \* main.py client_subscriptions: client -> set of symbols
  cadence,               \* the locals of broadcast_updates / broadcast_orderbook_update
  sent                   \* the frames handed to websocket.send_json that returned, oldest first

Tasks == 1..MaxTasks

NoFrame == [bids |-> <<>>, asks |-> <<>>]

\* a task that is in no call to the store
IdleTask == [pc |-> "idle", op |-> "none", key |-> <<"", "">>, frame |-> NoFrame,
             timestamp |-> 0, is_snapshot |-> FALSE]

\* broadcast_updates in asyncio.sleep
IdleCadence == [pc |-> "sleep", orderbooks |-> <<>>, remaining |-> {}, client |-> "",
                disconnected |-> {}, metrics |-> <<>>, size |-> 0, log |-> {},
                started |-> {}]

clientVars == <<connected_clients, client_subscriptions, cadence, sent>>

VARIABLES
  tick_runs              \* the locals of the tasks running broadcast_price_update_immediately,
                         \* in the order asyncio.create_task made them

VARIABLES
  venue,                 \* the venue of the stream client: "hyperliquid" or "lighter"
  ws,                    \* _ws: 0 for None, else the number of the connection
  connected,             \* _connected
  subscriptions,         \* the keys of _subscriptions (and of _orderbook_callbacks), oldest first
  receive_tasks,         \* the tasks running _receive_messages, in the order they were made
  conns,                 \* connection -> is its transport open, the frames it holds unread
  upstream,              \* the frames the client sent to the venue, oldest first
  pushed,                \* the number of frames the venue has sent
  delivered              \* the frames handed to update_orderbook that returned, oldest first

streamVars == <<venue, ws, connected, subscriptions, receive_tasks, conns, upstream, pushed,
                delivered>>

VARIABLES
  lighter_subscriptions, \* ConnectionManager.lighter_subscriptions
  sub_tasks,             \* the tasks of websocket_endpoint: where each is in subscribe_lighter
  requests,              \* the number of calls of subscribe_lighter
  rest_fetch,            \* the locals of _periodic_rest_fetch
  history                \* the REST attempts, the snapshots they delivered and the subscribe
                         \* frames of venue L sent, oldest first

subVars == <<lighter_subscriptions, sub_tasks, requests, rest_fetch, history>>

VARIABLES
  session,                  \* websocket -> the state of its websocket_endpoint and
                            \* heartbeat_monitor tasks and of its transport
  hyperliquid_subscriptions, \* ConnectionManager.hyperliquid_subscriptions
  calculator,                \* a call of LiquidityCalculator.calculate_all_metrics: its
                             \* argument and, once it has returned, its result
  should_stop,               \* _should_stop of the stream client
  stop,                      \* where the call of ConnectionManager.stop is
  venue_book                 \* the orders resting at venue L for market_1, as its REST
                             \* endpoint lists them

sessionVars == <<session, hyperliquid_subscriptions, venue_book, calculator, should_stop, stop,
                 venue_book>>

\* no order resting
NoBook == [bids |-> <<>>, asks |-> <<>>]

\* no call of ConnectionManager.stop
NoStop == [pc |-> "idle", task |-> 0, ws |-> 0]

\* no call of the calculator outside the store
IdleCalculator == [pc |-> "idle", orderbook |-> <<>>, metrics |-> <<>>]

adapterVars == <<tick_runs, streamVars, subVars, sessionVars>>

\* a websocket no client has opened: no endpoint task, no heartbeat task
NoSession == [pc |-> "new", hb |-> "none", alive |-> TRUE, symbol |-> "", frames |-> 0,
              last |-> <<"", "">>]

\* _periodic_rest_fetch in asyncio.sleep(5)
IdleRestFetch == [pc |-> "sleep", cycles |-> 0, markets |-> <<>>, failed |-> {},
                  remaining |-> <<>>]

\* the connection manager after construction: no market subscribed, no call
\* of subscribe_lighter, the periodic task asleep
SubInit ==
  /\ lighter_subscriptions = {}
  /\ sub_tasks = <<>>
  /\ requests = 0
  /\ rest_fetch = IdleRestFetch
  /\ history = <<>>

\* after construction: no callback task, a client never connected
ConnectionInit ==
  /\ tick_runs = <<>>
  /\ venue = "hyperliquid"
  /\ ws = 0
  /\ connected = FALSE
  /\ subscriptions = <<>>
  /\ receive_tasks = <<>>
  /\ conns = <<>>
  /\ upstream = <<>>
  /\ pushed = 0
  /\ delivered = <<>>
  /\ SubInit
  /\ session = [c \in {} |-> NoSession]
  /\ hyperliquid_subscriptions = {}
  /\ should_stop = FALSE
  /\ stop = NoStop
  /\ venue_book = NoBook

\* the same, and no call of the calculator outside the store
AdapterInit ==
  /\ ConnectionInit
  /\ calculator = IdleCalculator

vars == <<caches, orderbooks, orderbooks_keys, liquidity_metrics, price_history, locks,
          tick_tasks, applied, call, task, connected_clients, client_subscriptions,
          cadence, sent, adapterVars>>

\* after construction: nothing stored, no task in a call, no client, the broadcaster asleep
Init ==
  /\ StoreInit
  /\ call = NoCall
  /\ task = [t \in Tasks |-> IdleTask]
  /\ connected_clients = {}
  /\ client_subscriptions = EmptyDict
  /\ cadence = IdleCadence
  /\ sent = <<>>
  /\ AdapterInit

\* the receive loop of venue H delivers a frame
ReceiveHyperliquid ==
  /\ CanWrite
  /\ \E frame \in Frames, timestamp \in StoreTimestamps :
       HandleHyperliquidUpdate(frame, timestamp)
  /\ UNCHANGED <<task, clientVars, adapterVars>>

\* the receive loop of venue L delivers a frame
ReceiveLighter ==
  /\ CanWrite
  /\ \E frame \in Frames, timestamp \in StoreTimestamps :
       HandleLighterUpdate(frame, timestamp)
  /\ UNCHANGED <<task, clientVars, adapterVars>>

\* a REST fetch of venue L delivers a book
FetchLighterRest ==
  /\ CanWrite
  /\ \E frame \in Frames, timestamp \in StoreTimestamps :
       RestSnapshot(frame, timestamp)
  /\ UNCHANGED <<task, clientVars, adapterVars>>

Next ==
  \/ ReceiveHyperliquid
  \/ ReceiveLighter
  \/ FetchLighterRest

Spec == Init /\ [][Next]_vars

(***************************************************************************)
(* Properties of the store, checked under Spec.                            *)
(***************************************************************************)
PricesOf(levels) == {levels[i].price : i \in 1..Len(levels)}

\* the size of the last level of the list that names the price
LastSizeFor(levels, price) ==
  levels[SetMax({i \in 1..Len(levels) : levels[i].price = price})].size

\* the step applies a diff to a book that was initialized before it
DiffStep ==
  /\ call'.op = "update"
  /\ ~call'.is_snapshot
  /\ call'.key \in DOMAIN caches
  /\ caches[call'.key].initialized

\* a price the list does not name keeps its entry
KeptSide(before, levels, after) ==
  \A p \in (DOMAIN before \cup DOMAIN after) \ PricesOf(levels) :
    p \in DOMAIN before /\ p \in DOMAIN after /\ after[p] = before[p]

\* every level of the list decides the entry of its price
EveryLevelSide(before, levels, after) ==
  /\ \A i \in 1..Len(levels) :
       IF levels[i].size <= 0 THEN levels[i].price \notin DOMAIN after
       ELSE levels[i].price \in DOMAIN after /\ after[levels[i].price] = levels[i].size
  /\ KeptSide(before, levels, after)

\* the last level of the list that names a price decides the entry of that price
LastLevelSide(before, levels, after) ==
  /\ \A p \in PricesOf(levels) :
       IF LastSizeFor(levels, p) <= 0 THEN p \notin DOMAIN after
       ELSE p \in DOMAIN after /\ after[p] = LastSizeFor(levels, p)
  /\ KeptSide(before, levels, after)

\* C1 as claimed: after a diff on an initialized book every input level with
\* size <= 0 has its price absent from its side, every input level with size > 0
\* has its price mapped to its size, and every price the input does not name
\* keeps its previous size on each side.
C1_EveryLevelDecides ==
  [][DiffStep =>
       /\ EveryLevelSide(caches[call'.key].bids, call'.bids, caches'[call'.key].bids)
       /\ EveryLevelSide(caches[call'.key].asks, call'.asks, caches'[call'.key].asks)]_vars

\* C1 amended: after a diff on an initialized book, for every price the input
\* names on a side the last input level naming it decides: size <= 0 leaves the
\* price absent, size > 0 maps the price to that size; every price the input
\* does not name keeps its previous size on each side.
C1_LastLevelDecides ==
  [][DiffStep =>
       /\ LastLevelSide(caches[call'.key].bids, call'.bids, caches'[call'.key].bids)
       /\ LastLevelSide(caches[call'.key].asks, call'.asks, caches'[call'.key].asks)]_vars

\* a diff that named one bid price twice (removing, then setting it) and one
\* price once has been applied to the initialized book of venue L
C1_Witness ==
  /\ call.op = "update" /\ ~call.is_snapshot
  /\ applied[call.key] = 2
  /\ Len(call.bids) = 2
  /\ call.bids[1].price = call.bids[2].price
  /\ call.bids[1].size <= 0 /\ call.bids[2].size > 0
  /\ DOMAIN caches[call.key].asks # {}


\* the step replaces the book: initialize, update with is_snapshot, or update
\* on a book that was never initialized
SnapshotStep ==
  \/ call'.op = "initialize"
  \/ /\ call'.op = "update"
     /\ \/ call'.is_snapshot
        \/ call'.key \notin DOMAIN caches
        \/ ~caches[call'.key].initialized

\* the side holds exactly the prices of the list, each with a size the list gives it
ReplacedSide(levels, after) ==
  /\ DOMAIN after = PricesOf(levels)
  /\ \A p \in DOMAIN after : \E i \in 1..Len(levels) :
       levels[i].price = p /\ levels[i].size = after[p]

\* every level of the published side is a level of the list, and every price
\* of the list is published
PublishedFrom(levels, published) ==
  /\ \A i \in 1..Len(published) : \E j \in 1..Len(levels) : levels[j] = published[i]
  /\ PricesOf(published) = PricesOf(levels)

\* C2: a call that replaces the book (initialize, update with is_snapshot, update
\* on a book never initialized) leaves on each side exactly the prices of its
\* input levels, with sizes the input gives them, so that no level from before
\* the call survives; and the book published after it is either the one
\* published before, untouched, or made of the input levels only, never a mix.
C2_SnapshotReplaces ==
  [][SnapshotStep =>
       /\ ReplacedSide(call'.bids, caches'[call'.key].bids)
       /\ ReplacedSide(call'.asks, caches'[call'.key].asks)
       /\ \/ orderbooks' = orderbooks
          \/ /\ call'.key \in DOMAIN orderbooks'
             /\ PublishedFrom(call'.bids, orderbooks'[call'.key].bids)
             /\ PublishedFrom(call'.asks, orderbooks'[call'.key].asks)]_vars

\* a snapshot frame of venue H replaced a published book whose best prices were others
C2_Witness ==
  /\ call.op = "update" /\ call.is_snapshot
  /\ call.key \in DOMAIN price_history
  /\ Len(price_history[call.key]) = 2
  /\ price_history[call.key][1].price # price_history[call.key][2].price
  /\ PricesOf(call.bids) = DOMAIN caches[call.key].bids
  /\ PricesOf(call.asks) = DOMAIN caches[call.key].asks

\* C3 (invariant B1): every size stored in the bid map and in the ask map of
\* every key is strictly positive, whatever sequence of initialize and update
\* calls was applied.
C3_StoredSizesPositive ==
  \A k \in DOMAIN caches :
    /\ \A p \in DOMAIN caches[k].bids : caches[k].bids[p] > 0
    /\ \A p \in DOMAIN caches[k].asks : caches[k].asks[p] > 0

StrictlyDecreasing(levels) ==
  \A i \in 1..Len(levels) : \A j \in 1..Len(levels) :
    i < j => levels[i].price > levels[j].price

StrictlyIncreasing(levels) ==
  \A i \in 1..Len(levels) : \A j \in 1..Len(levels) :
    i < j => levels[i].price < levels[j].price

\* C4: in every published snapshot the bids are strictly decreasing in price
\* and the asks strictly increasing in price.
C4_PublishedSorted ==
  \A k \in DOMAIN orderbooks :
    /\ StrictlyDecreasing(orderbooks[k].bids)
    /\ StrictlyIncreasing(orderbooks[k].asks)

\* a diff that named a bid price twice was applied and the published book of
\* its key has two bid levels
C4_Witness ==
  /\ call.op = "update" /\ ~call.is_snapshot
  /\ Len(call.bids) = 2 /\ call.bids[1].price = call.bids[2].price
  /\ call.key \in DOMAIN orderbooks
  /\ orderbooks[call.key].timestamp = call.timestamp
  /\ applied[call.key] = 2
  /\ Len(orderbooks[call.key].bids) = 2

\* C5: after every initialize or update that returned for a key, the published
\* snapshot of the key is the sorted content of the price maps of the key as
\* they are after that call; when a side is empty the snapshot has that side
\* empty and its mid and spread are null.
C5_PublishedIsStored ==
  \A k \in DOMAIN caches :
    caches[k].initialized =>
      /\ k \in DOMAIN orderbooks
      /\ orderbooks[k].bids = SortedDescending(caches[k].bids)
      /\ orderbooks[k].asks = SortedAscending(caches[k].asks)
      /\ (DOMAIN caches[k].bids = {} \/ DOMAIN caches[k].asks = {}) =>
           (MidPrice(orderbooks[k]) = None /\ Spread(orderbooks[k]) = None)

\* C6: whenever a published snapshot has both sides non-empty, its mid is
\* (highest bid price currently stored + lowest ask price currently stored) / 2.
C6_MidOfStoredBest ==
  \A k \in DOMAIN orderbooks :
    (Len(orderbooks[k].bids) > 0 /\ Len(orderbooks[k].asks) > 0) =>
      /\ DOMAIN caches[k].bids # {}
      /\ DOMAIN caches[k].asks # {}
      /\ 2 * MidPrice(orderbooks[k]) =
           SetMax(DOMAIN caches[k].bids) + SetMin(DOMAIN caches[k].asks)

\* the mid a reader of the key gets from the published snapshot, None without one
PublishedMid(obs, key) == IF key \in DOMAIN obs THEN MidPrice(obs[key]) ELSE None

\* C9: every call that changes the published mid of its key schedules the tick
\* callback exactly once, with the key, the new mid and the timestamp of the call.
C9_TickOnMidChange ==
  [][PublishedMid(orderbooks', call'.key) # PublishedMid(orderbooks, call'.key) =>
       tick_tasks' = Append(tick_tasks,
                            [exchange |-> call'.key[1], market |-> call'.key[2],
                             price |-> PublishedMid(orderbooks', call'.key),
                             timestamp |-> call'.timestamp])]_vars

\* the second call on a key moved its published mid from 3 to 4 and two
\* callbacks are scheduled, the last with mid 4
C9_Witness ==
  /\ call.op = "update"
  /\ applied[call.key] = 2
  /\ call.key \in DOMAIN price_history
  /\ Len(price_history[call.key]) = 2
  /\ price_history[call.key][1].price = 3
  /\ PublishedMid(orderbooks, call.key) = 4
  /\ C3_StoredSizesPositive
  /\ Len(tick_tasks) = 2
  /\ tick_tasks[2].price = 4

\* C10: a call that leaves the published mid of its key equal to the mid
\* published before it schedules no tick callback.
C10_NoTickOnSameMid ==
  [][PublishedMid(orderbooks', call'.key) = PublishedMid(orderbooks, call'.key) =>
       tick_tasks' = tick_tasks]_vars

(***************************************************************************)
(* The per-key lock.  Every call to the store is                           *)
(*     lock = await self._get_lock(exchange, market)                       *)
(*     async with lock: <body>                                             *)
(* _get_lock never suspends.  Entering the async with takes a free lock    *)
(* without suspending and otherwise queues the task until a release hands  *)
(* the lock over.  The body contains an await, so SpecLock lets the other  *)
(* tasks run between the entry and the body: a task is inside the critical *)
(* section from the step that takes the lock to the step that runs the     *)
(* body and releases the lock.                                             *)
(***************************************************************************)
\* Lock.acquire returns at once: not locked and no task queued
LockIsFree(lock) == ~lock.locked /\ lock.waiters = <<>>

\* Lock.acquire of a free lock
LockTake(lock) == [lock EXCEPT !.locked = TRUE]

\* Lock.acquire of a lock that is not free: queue a future and suspend
LockEnqueue(lock, t) == [lock EXCEPT !.waiters = Append(@, [task |-> t, done |-> FALSE])]

\* Lock.release at the exit of the async with: unlock and complete the first queued future
LockRelease(lock) ==
  [locked |-> FALSE,
   waiters |-> IF Len(lock.waiters) > 0 THEN [lock.waiters EXCEPT ![1].done = TRUE] ELSE <<>>]

\* the rest of Lock.acquire, run by the task whose future was completed
LockResume(lock, t) ==
  [locked |-> TRUE, waiters |-> SelectSeq(lock.waiters, LAMBDA w : w.task # t)]

\* the frames of SpecLock and SpecCadence: a bid at 2 and an ask at 4
BookFrames ==
  {[bids |-> <<[price |-> 2, size |-> s]>>, asks |-> <<[price |-> 4, size |-> 1]>>] :
     s \in 1..MaxSize}

\* the frame the tasks of SpecLock write
LockFrames == {frame \in BookFrames : frame.bids[1].size = 1}

WriteOps == {"initialize_orderbook", "update_orderbook"}

\* the writes applied and the writes some task is in
WritesStarted == TotalApplied + Cardinality({t \in Tasks : task[t].op \in WriteOps /\ task[t].pc # "idle"})

\* a task calls an operation of the store: _get_lock, then the entry of the async with
Begin(t, op, key, frame, timestamp, is_snapshot) ==
  /\ task[t].pc = "idle"
  /\ LET ls == GetLock(locks, key)
         free == LockIsFree(ls[key])
     IN /\ locks' = [ls EXCEPT ![key] = IF free THEN LockTake(@) ELSE LockEnqueue(@, t)]
        /\ task' = [task EXCEPT ![t] =
                      [pc |-> IF free THEN "critical" ELSE "waiting",
                       op |-> op, key |-> key, frame |-> frame, timestamp |-> timestamp,
                       is_snapshot |-> is_snapshot]]
  /\ UNCHANGED <<caches, orderbooks, orderbooks_keys, liquidity_metrics, price_history,
                 tick_tasks, applied, call, clientVars, adapterVars>>

CallInitializeOrderbook ==
  /\ WritesStarted < MaxUpdates
  /\ \E t \in Tasks, key \in Keys, frame \in LockFrames, timestamp \in StoreTimestamps :
       Begin(t, "initialize_orderbook", key, frame, timestamp, TRUE)

CallUpdateOrderbook ==
  /\ WritesStarted < MaxUpdates
  /\ \E t \in Tasks, key \in Keys, frame \in LockFrames, timestamp \in StoreTimestamps,
        is_snapshot \in BOOLEAN :
       Begin(t, "update_orderbook", key, frame, timestamp, is_snapshot)

CallGetOrderbook ==
  \E t \in Tasks, key \in Keys : Begin(t, "get_orderbook", key, NoFrame, 0, FALSE)

CallGetLiquidityMetrics ==
  \E t \in Tasks, key \in Keys : Begin(t, "get_liquidity_metrics", key, NoFrame, 0, FALSE)

CallGetPriceHistory ==
  \E t \in Tasks, key \in Keys : Begin(t, "get_price_history", key, NoFrame, 0, FALSE)

\* a queued task whose future was completed runs again and takes the lock
Resume ==
  \E t \in Tasks :
    /\ task[t].pc = "waiting"
    /\ \E i \in 1..Len(locks[task[t].key].waiters) :
         locks[task[t].key].waiters[i] = [task |-> t, done |-> TRUE]
    /\ locks' = [locks EXCEPT ![task[t].key] = LockResume(@, t)]
    /\ task' = [task EXCEPT ![t].pc = "critical"]
    /\ UNCHANGED <<caches, orderbooks, orderbooks_keys, liquidity_metrics, price_history,
                   tick_tasks, applied, call, clientVars, adapterVars>>

\* the exit of the async with and the return of the call, whose value goes to the caller
Leave(t) ==
  /\ locks' = [locks EXCEPT ![task[t].key] = LockRelease(@)]
  /\ task' = [task EXCEPT ![t] = IdleTask]
  /\ UNCHANGED <<clientVars, adapterVars>>

\* the critical section of initialize_orderbook
RunInitializeOrderbook ==
  \E t \in Tasks :
    /\ task[t].pc = "critical" /\ task[t].op = "initialize_orderbook"
    /\ InitializeBody(task[t].key, task[t].frame.bids, task[t].frame.asks, task[t].timestamp)
    /\ call' = [op |-> "initialize", key |-> task[t].key, bids |-> task[t].frame.bids,
                asks |-> task[t].frame.asks, timestamp |-> task[t].timestamp,
                is_snapshot |-> TRUE]
    /\ Leave(t)

\* the critical section of update_orderbook
RunUpdateOrderbook ==
  \E t \in Tasks :
    /\ task[t].pc = "critical" /\ task[t].op = "update_orderbook"
    /\ UpdateBody(task[t].key, task[t].frame.bids, task[t].frame.asks, task[t].timestamp,
                  task[t].is_snapshot)
    /\ call' = [op |-> "update", key |-> task[t].key, bids |-> task[t].frame.bids,
                asks |-> task[t].frame.asks, timestamp |-> task[t].timestamp,
                is_snapshot |-> task[t].is_snapshot]
    /\ Leave(t)

\* the critical section of get_orderbook: it reads and changes nothing
RunGetOrderbook ==
  \E t \in Tasks :
    /\ task[t].pc = "critical" /\ task[t].op = "get_orderbook"
    /\ Leave(t)
    /\ UNCHANGED <<caches, orderbooks, orderbooks_keys, liquidity_metrics, price_history,
                   tick_tasks, applied, call>>

\* the critical section of get_liquidity_metrics
RunGetLiquidityMetrics ==
  \E t \in Tasks :
    /\ task[t].pc = "critical" /\ task[t].op = "get_liquidity_metrics"
    /\ Leave(t)
    /\ UNCHANGED <<caches, orderbooks, orderbooks_keys, liquidity_metrics, price_history,
                   tick_tasks, applied, call>>

\* the critical section of get_price_history
RunGetPriceHistory ==
  \E t \in Tasks :
    /\ task[t].pc = "critical" /\ task[t].op = "get_price_history"
    /\ Leave(t)
    /\ UNCHANGED <<caches, orderbooks, orderbooks_keys, liquidity_metrics, price_history,
                   tick_tasks, applied, call>>

NextLock ==
  \/ CallInitializeOrderbook
  \/ CallUpdateOrderbook
  \/ CallGetOrderbook
  \/ CallGetLiquidityMetrics
  \/ CallGetPriceHistory
  \/ Resume
  \/ RunInitializeOrderbook
  \/ RunUpdateOrderbook
  \/ RunGetOrderbook
  \/ RunGetLiquidityMetrics
  \/ RunGetPriceHistory

SpecLock == Init /\ [][NextLock]_vars

\* the task is inside the critical section of the key
InCritical(t, key) == task[t].pc = "critical" /\ task[t].key = key

\* the task holds the lock of the key or is the one the lock was handed to
HoldsOrHanded(t, key) ==
  /\ task[t].key = key
  /\ \/ task[t].pc = "critical"
     \/ /\ task[t].pc = "waiting"
        /\ \E i \in 1..Len(locks[key].waiters) : locks[key].waiters[i] = [task |-> t, done |-> TRUE]

\* C7: no two operations on the same key are inside the critical section of
\* that key together, and a task that waits for the lock of its key, the
\* lock not yet handed to it, waits while another operation on the same key
\* holds that lock or was handed it: an operation never waits for an
\* operation on another key.
C7_PerKeyExclusion ==
  /\ \A t \in Tasks : \A u \in Tasks : \A key \in Keys :
       (InCritical(t, key) /\ InCritical(u, key)) => t = u
  /\ \A t \in Tasks :
       (task[t].pc = "waiting" /\ ~HoldsOrHanded(t, task[t].key)) =>
         \E u \in Tasks : u # t /\ HoldsOrHanded(u, task[t].key)

\* an update is inside the critical section of one key while a reader of the
\* same key waits and another task is inside the critical section of the other key
C7_Witness ==
  /\ task[1].pc = "critical" /\ task[1].op = "update_orderbook" /\ task[1].key = LighterKey
  /\ task[2].pc = "waiting" /\ task[2].op = "get_orderbook" /\ task[2].key = LighterKey
  /\ task[3].pc = "critical" /\ task[3].key = HyperliquidKey

(***************************************************************************)
(* backend/main.py: the cadence broadcaster.  broadcast_updates suspends   *)
(* in asyncio.sleep and in every websocket.send_json; between two          *)
(* suspensions it runs alone, and the calls it makes to the store find the *)
(* lock free and return without suspending.  The venues write the store    *)
(* while the broadcaster is suspended.                                     *)
(***************************************************************************)
\* config.py LIGHTER_MARKET_REVERSE_STR.get(market, market)
LighterMarketReverse(market) ==
  CASE market = "market_0" -> "ETH"
    [] market = "market_1" -> "BTC"
    [] market = "market_2" -> "SOL"
    [] OTHER -> market

\* the subscription key of broadcast_orderbook_update
SubscriptionKey(orderbook) ==
  IF orderbook.exchange = "lighter" THEN LighterMarketReverse(orderbook.market)
  ELSE orderbook.market

\* levels[:20]
Top20(levels) == SubSeq(levels, 1, IF Len(levels) < 20 THEN Len(levels) ELSE 20)

\* the frame of send_orderbook_update
OrderBookUpdate(client, orderbook) ==
  [to |-> client, type |-> "orderbook_update",
   exchange |-> orderbook.exchange, market |-> orderbook.market,
   bids |-> Top20(orderbook.bids), asks |-> Top20(orderbook.asks),
   mid |-> MidPrice(orderbook), spread |-> Spread(orderbook),
   spread_bps |-> SpreadBps(orderbook), timestamp |-> orderbook.timestamp]

\* the frame of send_liquidity_metrics
LiquidityMetricsUpdate(client, metrics) ==
  [to |-> client, type |-> "liquidity_metrics",
   exchange |-> metrics.exchange, market |-> metrics.market,
   metrics |-> FormatForFrontend(metrics), timestamp |-> metrics.timestamp]

\* a get_all_orderbooks that lists every snapshot twice
GetAllOrderbooksTwice ==
  [i \in 1..(2 * Len(orderbooks_keys)) |->
     orderbooks[orderbooks_keys[((i - 1) % Len(orderbooks_keys)) + 1]]]

\* OrderBookManager.get_all_orderbooks: the snapshots in the order of the keys
GetAllOrderbooks == [i \in 1..Len(orderbooks_keys) |-> orderbooks[orderbooks_keys[i]]]

\* client_subscriptions.get(client, set())
SubscriptionsOf(subs, client) == IF client \in DOMAIN subs THEN subs[client] ELSE {}

\* the clients of the set that are subscribed to the first of the orderbooks
SubscribedTo(obs, clients, subs) ==
  IF obs = <<>> THEN {}
  ELSE {x \in clients : SubscriptionKey(Head(obs)) \in SubscriptionsOf(subs, x)}

\* the broadcaster runs from c (the list of orderbooks whose head is the one
\* being broadcast, the clients the for loop has not visited, the clients that
\* failed) to its next suspension: the send to the next subscribed client, or,
\* the clients exhausted, the removal of the failed ones and the next
\* orderbook, or, the orderbooks exhausted, the sleep.  A set is iterated in
\* one fixed order.  The for loop iterates the set connected_clients itself:
\* when the size of the set changed while the broadcaster was suspended, the
\* iterator raises RuntimeError, which leaves broadcast_orderbook_update and
\* is caught by broadcast_updates, and the broadcaster sleeps.  c.log is the
\* set of (client, type, venue, market) sent since the sleep returned, and
\* c.started the clients that were connected and subscribed when the for loop
\* over the head of c.orderbooks started.
RECURSIVE RunToSend(_, _, _)
RunToSend(c, clients, subs) ==
  IF c.orderbooks = <<>> \/ Cardinality(clients) # c.size
  THEN [cadence |-> IdleCadence, connected_clients |-> clients, client_subscriptions |-> subs]
  ELSE LET matching == {x \in c.remaining :
                          SubscriptionKey(Head(c.orderbooks)) \in SubscriptionsOf(subs, x)}
       IN IF matching # {}
          THEN LET client == CHOOSE x \in matching : TRUE
               IN [cadence |-> [c EXCEPT !.pc = "send_orderbook", !.client = client,
                                         !.remaining = @ \ {client}, !.metrics = <<>>],
                   connected_clients |-> clients, client_subscriptions |-> subs]
          ELSE RunToSend([c EXCEPT !.orderbooks = Tail(@),
                                   !.remaining = clients \ c.disconnected,
                                   !.size = Cardinality(clients \ c.disconnected),
                                   !.started =
                                     SubscribedTo(Tail(c.orderbooks), clients \ c.disconnected,
                                                  subs),
                                   !.disconnected = {}, !.client = "", !.metrics = <<>>],
                         clients \ c.disconnected,
                         [x \in DOMAIN subs \ c.disconnected |-> subs[x]])

Continue(c) ==
  LET r == RunToSend(c, connected_clients, client_subscriptions)
  IN /\ cadence' = r.cadence
     /\ connected_clients' = r.connected_clients
     /\ client_subscriptions' = r.client_subscriptions

\* broadcast_updates: the sleep returns; with a client connected it gets all
\* orderbooks and starts to broadcast the first one
CadenceWake ==
  /\ cadence.pc = "sleep"
  /\ Len(sent) < MaxSent
  /\ IF connected_clients = {}
     THEN UNCHANGED <<cadence, connected_clients, client_subscriptions>>
     ELSE Continue([IdleCadence EXCEPT !.orderbooks = GetAllOrderbooks,
                                       !.remaining = connected_clients,
                                       !.size = Cardinality(connected_clients),
                                       !.started =
                                         SubscribedTo(GetAllOrderbooks, connected_clients,
                                                      client_subscriptions)])
  /\ UNCHANGED <<storeVars, call, task, sent, adapterVars>>

\* a send_json to the client raises: always, when its transport is tracked
\* and dead; at any time, when the transport is not tracked
SendRaises(client) == client \in DOMAIN session => ~session[client].alive

\* a send_json to the client returns
SendReturns(client) == client \in DOMAIN session => session[client].alive

\* dict.get(key): the value in a list, the empty list for None
DictGet(d, key) == IF key \in DOMAIN d THEN <<d[key]>> ELSE <<>>

\* broadcast_orderbook_update: send_orderbook_update returns, then
\* get_liquidity_metrics reads the metrics the store holds now
CadenceOrderbookSent ==
  /\ cadence.pc = "send_orderbook"
  /\ SendReturns(cadence.client)
  /\ sent' = Append(sent, OrderBookUpdate(cadence.client, Head(cadence.orderbooks)))
  /\ LET orderbook == Head(cadence.orderbooks)
         key == <<orderbook.exchange, orderbook.market>>
         metrics == DictGet(liquidity_metrics, key)
         logged == [cadence EXCEPT !.log = @ \cup {<<cadence.client, "orderbook_update", key>>}]
     IN /\ locks' = GetLock(locks, key)
        /\ IF metrics # <<>>
           THEN /\ cadence' = [logged EXCEPT !.pc = "send_metrics", !.metrics = metrics]
                /\ UNCHANGED <<connected_clients, client_subscriptions>>
           ELSE Continue(logged)
  /\ UNCHANGED <<caches, orderbooks, orderbooks_keys, liquidity_metrics, price_history,
                 tick_tasks, applied, call, task, adapterVars>>

\* broadcast_orderbook_update: send_liquidity_metrics returns
CadenceMetricsSent ==
  /\ cadence.pc = "send_metrics"
  /\ SendReturns(cadence.client)
  /\ sent' = Append(sent, LiquidityMetricsUpdate(cadence.client, cadence.metrics[1]))
  /\ Continue([cadence EXCEPT !.log = @ \cup
                 {<<cadence.client, "liquidity_metrics",
                    <<cadence.metrics[1].exchange, cadence.metrics[1].market>>>>}])
  /\ UNCHANGED <<storeVars, call, task, adapterVars>>

\* broadcast_orderbook_update: a send raises and the client is put in disconnected
CadenceSendFails ==
  /\ cadence.pc \in {"send_orderbook", "send_metrics"}
  /\ SendRaises(cadence.client)
  /\ Continue([cadence EXCEPT !.disconnected = @ \cup {cadence.client}])
  /\ UNCHANGED <<storeVars, call, task, sent, adapterVars>>

\* venue H delivers a book while the broadcaster is suspended
HyperliquidBook ==
  /\ CanWrite
  /\ \E frame \in BookFrames, timestamp \in Timestamps :
       HandleHyperliquidUpdate(frame, timestamp)
  /\ UNCHANGED <<task, clientVars, adapterVars>>

\* venue L delivers a diff while the broadcaster is suspended
LighterBook ==
  /\ CanWrite
  /\ \E frame \in BookFrames, timestamp \in Timestamps :
       HandleLighterUpdate(frame, timestamp)
  /\ UNCHANGED <<task, clientVars, adapterVars>>

\* a REST fetch of venue L delivers a book while the broadcaster is suspended
LighterRestBook ==
  /\ CanWrite
  /\ \E frame \in BookFrames, timestamp \in Timestamps :
       RestSnapshot(frame, timestamp)
  /\ UNCHANGED <<task, clientVars, adapterVars>>

Clients == {"client1"}

\* one client has connected and subscribed to BTC while no venue had delivered a book
InitCadence ==
  /\ StoreInit
  /\ call = NoCall
  /\ task = [t \in Tasks |-> IdleTask]
  /\ connected_clients = Clients
  /\ client_subscriptions = [x \in Clients |-> {"BTC"}]
  /\ cadence = IdleCadence
  /\ sent = <<>>
  /\ AdapterInit

NextCadence ==
  \/ CadenceWake
  \/ CadenceOrderbookSent
  \/ CadenceMetricsSent
  \/ CadenceSendFails
  \/ HyperliquidBook
  \/ LighterBook
  \/ LighterRestBook

SpecCadence == InitCadence /\ [][NextCadence]_vars

\* the book an orderbook_update frame carries
BookOf(frame) ==
  [exchange |-> frame.exchange, market |-> frame.market, bids |-> frame.bids,
   asks |-> frame.asks, timestamp |-> frame.timestamp]

SamePair(a, b) == a.to = b.to /\ a.exchange = b.exchange /\ a.market = b.market

\* C8: every liquidity_metrics frame the broadcaster sent to a client follows
\* an orderbook_update frame to that client for the same (venue, market), the
\* last one before it, and carries the timestamp of that frame and the metrics
\* of the book of that frame.
C8_ConsistentPair ==
  \A i \in 1..Len(sent) :
    sent[i].type = "liquidity_metrics" =>
      \E j \in 1..(i - 1) :
        /\ sent[j].type = "orderbook_update" /\ SamePair(sent[j], sent[i])
        /\ \A m \in (j + 1)..(i - 1) :
             ~(sent[m].type = "orderbook_update" /\ SamePair(sent[m], sent[i]))
        /\ sent[j].timestamp = sent[i].timestamp
        /\ sent[i].metrics = FormatForFrontend(CalculateAllMetrics(BookOf(sent[j])))

(***************************************************************************)
(* The order of the tick-price callbacks.  A stream frame of venue L       *)
(* carries book.offset / 1000, a stream frame of venue H book.time / 1000, *)
(* both supplied by the venue; a REST book is stamped with the local       *)
(* datetime.now().  The store passes the timestamp of the call to the      *)
(* callback as it is.                                                      *)
(***************************************************************************)
\* the callbacks scheduled for a key, oldest first
TicksOf(key) ==
  SelectSeq(tick_tasks, LAMBDA x : x.exchange = key[1] /\ x.market = key[2])

\* C11: for each (venue, market) the timestamps carried by successive
\* tick-price callbacks never decrease, whatever the interleaving of the
\* stream frames and the REST snapshots of that key.
C11_TickTimestampsNonDecreasing ==
  \A key \in Keys :
    LET ticks == TicksOf(key)
    IN \A i \in 1..Len(ticks) : \A j \in 1..Len(ticks) :
         i < j => ticks[i].timestamp <= ticks[j].timestamp

(***************************************************************************)
(* backend/main.py: the tick-price callback.  _update_from_cache hands     *)
(* broadcast_price_update_immediately to asyncio.create_task and goes on;  *)
(* the event loop starts the tasks in the order they were made, each runs  *)
(* to its first websocket.send_json and is suspended there.  A store call  *)
(* has no suspension between the entry of its async with and its return,   *)
(* so it is one step and the lock is free again when the step ends.        *)
(***************************************************************************)
\* the frame of send_price_update
PriceUpdate(client, tick) ==
  [to |-> client, type |-> "price_update", exchange |-> tick.exchange,
   market |-> tick.market, price |-> tick.price, timestamp |-> tick.timestamp]

\* the subscription key of broadcast_price_update_immediately
TickSubscriptionKey(tick) ==
  IF tick.exchange = "lighter" THEN LighterMarketReverse(tick.market) ELSE tick.market

\* broadcast_price_update_immediately from the top of its for loop to its
\* next suspension.  The loop iterates the set connected_clients itself: a
\* set whose size changed while the task was suspended makes the iterator
\* raise RuntimeError, which nothing in the task catches.
TickContinue(runs, i, r) ==
  IF Cardinality(connected_clients) # r.size
  THEN /\ tick_runs' = [runs EXCEPT ![i] = [r EXCEPT !.pc = "raised", !.client = ""]]
       /\ UNCHANGED <<connected_clients, client_subscriptions>>
  ELSE LET matching == {x \in r.remaining :
                          TickSubscriptionKey(tick_tasks[i]) \in
                            SubscriptionsOf(client_subscriptions, x)}
       IN IF matching # {}
          THEN LET client == CHOOSE x \in matching : TRUE
               IN /\ tick_runs' = [runs EXCEPT ![i] =
                                     [r EXCEPT !.pc = "send", !.client = client,
                                               !.remaining = @ \ {client}]]
                  /\ UNCHANGED <<connected_clients, client_subscriptions>>
          ELSE /\ tick_runs' = [runs EXCEPT ![i] =
                                  [r EXCEPT !.pc = "done", !.client = "", !.remaining = {}]]
               /\ connected_clients' = connected_clients \ r.disconnected
               /\ client_subscriptions' =
                    [x \in DOMAIN client_subscriptions \ r.disconnected |->
                       client_subscriptions[x]]

\* the event loop starts the oldest callback task not yet started, which runs
\* to its first suspension
TickStart ==
  /\ Len(tick_runs) < Len(tick_tasks)
  /\ LET i == Len(tick_runs) + 1
         r == [pc |-> "start", client |-> "", remaining |-> connected_clients,
               size |-> Cardinality(connected_clients), disconnected |-> {}]
     IN TickContinue(Append(tick_runs, r), i, r)
  /\ UNCHANGED <<storeVars, call, task, cadence, sent, streamVars, subVars, sessionVars>>

\* send_price_update returns
TickSent ==
  /\ \E i \in 1..Len(tick_runs) :
       /\ tick_runs[i].pc = "send"
       /\ sent' = Append(sent, PriceUpdate(tick_runs[i].client, tick_tasks[i]))
       /\ TickContinue(tick_runs, i, tick_runs[i])
  /\ UNCHANGED <<storeVars, call, task, cadence, streamVars, subVars, sessionVars>>

\* send_price_update raises and the client is put in disconnected
TickSendFails ==
  /\ \E i \in 1..Len(tick_runs) :
       /\ tick_runs[i].pc = "send"
       /\ TickContinue(tick_runs, i, [tick_runs[i] EXCEPT !.disconnected = @ \cup {tick_runs[i].client}])
  /\ UNCHANGED <<storeVars, call, task, cadence, sent, streamVars, subVars, sessionVars>>

NextTick ==
  \/ HyperliquidBook
  \/ LighterBook
  \/ LighterRestBook
  \/ TickStart
  \/ TickSent
  \/ TickSendFails

SpecTick == InitCadence /\ [][NextTick]_vars

\* a step in which a store call returned
StoreCallStep == applied' # applied

\* a step in which a send to a client returned
SendStep == sent' # sent

NoLockHeld(ls) == \A k \in DOMAIN ls : ~ls[k].locked

\* C12: the writer never waits for a consumer.  Every store call ends with
\* every per-key lock released, makes at most one callback task and neither
\* starts it nor sends anything itself; every send to a client happens in a
\* step of a callback task, with no lock held before or after it and the
\* store untouched; and as long as the bound of the run allows a write, each
\* source can write whatever the state of the callback tasks, suspended in a
\* send or not.
C12_WriterNeverWaits ==
  /\ [][/\ NoLockHeld(locks')
        /\ StoreCallStep => /\ ~SendStep
                            /\ tick_runs' = tick_runs
                            /\ Len(tick_tasks') <= Len(tick_tasks) + 1
        /\ SendStep => /\ NoLockHeld(locks)
                       /\ UNCHANGED storeVars]_vars
  /\ [](CanWrite => /\ ENABLED HyperliquidBook
                    /\ ENABLED LighterBook
                    /\ ENABLED LighterRestBook)

\* the callback task of the first write is suspended in its send to the
\* client, nothing was sent yet, and a second write has returned and made its
\* own callback task
C12_Witness ==
  /\ Len(tick_runs) = 1 /\ tick_runs[1].pc = "send"
  /\ sent = <<>>
  /\ TotalApplied = 2 /\ Len(tick_tasks) = 2
  /\ NoLockHeld(locks)

(***************************************************************************)
(* src/hyperliquid/client.py and src/lighter/client.py: the stream client. *)
(* The two classes have the same connect, _receive_messages,               *)
(* _handle_message and _resubscribe; the variable venue says which one     *)
(* runs.  The connection manager makes both with auto_reconnect=True and   *)
(* calls disconnect only at shutdown, so _should_stop stays False in every *)
(* run without the shutdown.  A task is suspended in connect(url), in ws.send, in       *)
(* ws.recv and in asyncio.sleep; ws.recv of websockets raises RuntimeError *)
(* when another coroutine is already waiting in recv of that connection,   *)
(* and returns the frames a closed connection still holds before it        *)
(* raises ConnectionClosed.                                                *)
(***************************************************************************)
\* connections opened in a run
MaxConns == 3

\* frames the venue sends in a run
MaxFrames == 2

\* transports that fail in a run
MaxFailures == 2

Venues == {"hyperliquid", "lighter"}

\* the markets of a venue that clients subscribe to, as the store names them
Markets(v) == IF v = "hyperliquid" THEN <<"BTC", "ETH">> ELSE <<"market_1", "market_0">>

StreamKeys == {<<v, Markets(v)[i]>> : v \in Venues, i \in 1..2}

\* connection_manager.py: HyperliquidWebSocket(auto_reconnect=True),
\* LighterWebSocket(testnet=False, auto_reconnect=True)
auto_reconnect == TRUE

\* the property is_connected
is_connected == connected /\ ws # 0

\* a task of _receive_messages: where it is, the connection whose recv it
\* waits in, the subscription _resubscribe is sending
ReceiveTask(pc, w, i) == [pc |-> pc, ws |-> w, i |-> i]

\* what a frame of the venue is: a book, bytes that are not JSON, JSON whose
\* book lacks a field, a book with a price that is not a number
MsgKinds == {"book", "not_json", "bad_book", "bad_level"}

\* json.loads of _handle_message returns
JsonLoads(msg) == msg.kind # "not_json"

\* WsBook.from_dict / OrderBook.from_dict returns
FromDict(msg) == msg.kind # "bad_book"

\* the conversion of the levels in _handle_hyperliquid_update / _handle_lighter_update returns
ToLevels(msg) == msg.kind # "bad_level"

InSeq(x, seq) == \E i \in 1..Len(seq) : seq[i] = x

\* a frame reaches update_orderbook whatever its content
DeliversUnparsed(msg, subs) == InSeq(msg.channel, subs)

\* _handle_message to the call of update_orderbook: the frame is JSON, parses
\* as a book, a callback is registered for its channel, its levels convert
Delivers(msg, subs) ==
  /\ JsonLoads(msg)
  /\ FromDict(msg)
  /\ InSeq(msg.channel, subs)
  /\ ToLevels(msg)

\* recv returning the newest frame the connection holds
NewestMessage(inbox) == inbox[Len(inbox)]

\* ws.recv(): the oldest frame the connection holds
NextMessage(inbox) == Head(inbox)

\* the top of the while loop of _receive_messages for task t, to its next
\* suspension: the loop ends when _should_stop (s) is set or the client is
\* not connected; recv raises
\* RuntimeError when another task waits in recv of the same connection, and
\* the except branch then goes to asyncio.sleep(reconnect_delay)
LoopTopUnless(rts, t, c, w, s) ==
  IF s \/ ~(c /\ w # 0)
  THEN ReceiveTask("done", 0, 0)
  ELSE IF \E u \in 1..Len(rts) : u # t /\ rts[u].pc = "recv" /\ rts[u].ws = w
       THEN IF auto_reconnect THEN ReceiveTask("sleep", 0, 0) ELSE ReceiveTask("done", 0, 0)
       ELSE ReceiveTask("recv", w, 0)

\* the same with the _should_stop of this state
LoopTop(rts, t, c, w) == LoopTopUnless(rts, t, c, w, should_stop)

\* the venue sends a frame on a connection, for a channel subscribed on it
VenueSends ==
  /\ pushed < MaxFrames
  /\ \E n \in 1..Len(conns), i \in 1..2, kind \in MsgKinds, frame \in LockFrames :
       /\ conns[n].open
       /\ InSeq([ws |-> n, channel |-> Markets(venue)[i]], upstream)
       /\ conns' = [conns EXCEPT ![n].inbox =
                      Append(@, [kind |-> kind, channel |-> Markets(venue)[i],
                                 frame |-> frame, time |-> pushed + 1])]
       /\ pushed' = pushed + 1
  /\ UNCHANGED <<storeVars, call, task, clientVars, tick_runs, subVars, sessionVars, venue, ws, connected,
                 subscriptions, receive_tasks, upstream, delivered>>

\* the transport of a connection fails
TransportFails ==
  /\ Cardinality({n \in 1..Len(conns) : ~conns[n].open}) < MaxFailures
  /\ \E n \in 1..Len(conns) :
       /\ conns[n].open
       /\ conns' = [conns EXCEPT ![n].open = FALSE]
  /\ UNCHANGED <<storeVars, call, task, clientVars, tick_runs, subVars, sessionVars, venue, ws, connected,
                 subscriptions, receive_tasks, upstream, pushed, delivered>>

\* _receive_messages: recv returns a frame, _handle_message handles it, and
\* the loop goes to its next recv
Receive ==
  /\ rest_fetch.pc # "apply"  \* the for loop of _periodic_rest_fetch does not suspend
  /\ \E t \in 1..Len(receive_tasks) :
       /\ receive_tasks[t].pc = "recv"
       /\ conns[receive_tasks[t].ws].inbox # <<>>
       /\ LET n == receive_tasks[t].ws
              msg == NextMessage(conns[n].inbox)
          IN /\ conns' = [conns EXCEPT ![n].inbox = Tail(@)]
             /\ IF Delivers(msg, subscriptions)
                THEN /\ UpdateOrderbook(<<venue, msg.channel>>, msg.frame, msg.time,
                                        venue = "hyperliquid")
                     /\ delivered' = Append(delivered, [ws |-> n, channel |-> msg.channel,
                                                        time |-> msg.time])
                ELSE UNCHANGED <<storeVars, call, delivered>>
             /\ receive_tasks' = [receive_tasks EXCEPT ![t] =
                                    LoopTop(receive_tasks, t, connected, ws)]
  /\ UNCHANGED <<task, clientVars, tick_runs, subVars, sessionVars, venue, ws, connected, subscriptions, upstream,
                 pushed>>

\* _receive_messages: recv raises ConnectionClosed; with auto_reconnect and
\* without _should_stop the task goes to asyncio.sleep(reconnect_delay)
RecvRaises ==
  /\ \E t \in 1..Len(receive_tasks) :
       /\ receive_tasks[t].pc = "recv"
       /\ ~conns[receive_tasks[t].ws].open
       /\ conns[receive_tasks[t].ws].inbox = <<>>
       /\ receive_tasks' = [receive_tasks EXCEPT ![t] =
                              IF auto_reconnect /\ ~should_stop
                              THEN ReceiveTask("sleep", 0, 0)
                              ELSE ReceiveTask("done", 0, 0)]
  /\ UNCHANGED <<storeVars, call, task, clientVars, tick_runs, subVars, sessionVars, venue, ws, connected,
                 subscriptions, conns, upstream, pushed, delivered>>

\* _receive_messages: the sleep returns, _connected = False, and connect()
\* goes to `await connect(self.url)`
ReconnectWake ==
  /\ \E t \in 1..Len(receive_tasks) :
       /\ receive_tasks[t].pc = "sleep"
       /\ connected' = FALSE
       /\ receive_tasks' = [receive_tasks EXCEPT ![t] = ReceiveTask("connect", 0, 0)]
  /\ UNCHANGED <<storeVars, call, task, clientVars, tick_runs, subVars, sessionVars, venue, ws, subscriptions,
                 conns, upstream, pushed, delivered>>

\* connect: the transport opens, _should_stop = False; the client makes the
\* task of
\* _receive_messages and then calls _resubscribe, which returns at once with
\* no subscription and else goes to the send of the first one
ConnectSucceeds ==
  /\ Len(conns) < MaxConns
  /\ \E t \in 1..Len(receive_tasks) :
       /\ receive_tasks[t].pc = "connect"
       /\ LET n == Len(conns) + 1
              rts == Append(receive_tasks, ReceiveTask("start", 0, 0))
          IN /\ conns' = Append(conns, [open |-> TRUE, inbox |-> <<>>])
             /\ ws' = n
             /\ connected' = TRUE
             /\ should_stop' = FALSE
             /\ receive_tasks' = [rts EXCEPT ![t] =
                                    IF subscriptions = <<>>
                                    THEN LoopTopUnless(rts, t, TRUE, n, FALSE)
                                    ELSE ReceiveTask("resub", 0, 1)]
  /\ UNCHANGED <<storeVars, call, task, clientVars, tick_runs, subVars, session,
                 hyperliquid_subscriptions, venue_book, calculator, stop, venue, subscriptions,
                 upstream, pushed, delivered>>

\* connect: the transport does not open; connect sets _connected = False and
\* raises, _receive_messages logs "Reconnection failed" and goes to the top
\* of its loop
ConnectFails ==
  /\ \E t \in 1..Len(receive_tasks) :
       /\ receive_tasks[t].pc = "connect"
       /\ connected' = FALSE
       /\ receive_tasks' = [receive_tasks EXCEPT ![t] = LoopTop(receive_tasks, t, FALSE, ws)]
  /\ UNCHANGED <<storeVars, call, task, clientVars, tick_runs, subVars, sessionVars, venue, ws, subscriptions,
                 conns, upstream, pushed, delivered>>

\* the event loop starts a task of _receive_messages
TaskStart ==
  /\ \E t \in 1..Len(receive_tasks) :
       /\ receive_tasks[t].pc = "start"
       /\ receive_tasks' = [receive_tasks EXCEPT ![t] =
                              LoopTop(receive_tasks, t, connected, ws)]
  /\ UNCHANGED <<storeVars, call, task, clientVars, tick_runs, subVars, sessionVars, venue, ws, connected,
                 subscriptions, conns, upstream, pushed, delivered>>

\* _resubscribe after the send of subscription i: the next subscription, or
\* the return of connect to the loop of _receive_messages
ResubNext(rts, t) ==
  IF rts[t].i < Len(subscriptions)
  THEN ReceiveTask("resub", 0, rts[t].i + 1)
  ELSE LoopTop(rts, t, connected, ws)

\* _resubscribe: the send of a subscription returns
ResubSent ==
  /\ \E t \in 1..Len(receive_tasks) :
       /\ receive_tasks[t].pc = "resub"
       /\ ws # 0 /\ conns[ws].open
       /\ upstream' = Append(upstream, [ws |-> ws,
                                        channel |-> subscriptions[receive_tasks[t].i]])
       /\ receive_tasks' = [receive_tasks EXCEPT ![t] = ResubNext(receive_tasks, t)]
  /\ UNCHANGED <<storeVars, call, task, clientVars, tick_runs, subVars, sessionVars, venue, ws, connected,
                 subscriptions, conns, pushed, delivered>>

\* _resubscribe: the send of a subscription raises (no transport, or one
\* that is closed), which is logged
ResubSendFails ==
  /\ \E t \in 1..Len(receive_tasks) :
       /\ receive_tasks[t].pc = "resub"
       /\ (ws # 0 => ~conns[ws].open)
       /\ receive_tasks' = [receive_tasks EXCEPT ![t] = ResubNext(receive_tasks, t)]
  /\ UNCHANGED <<storeVars, call, task, clientVars, tick_runs, subVars, sessionVars, venue, ws, connected,
                 subscriptions, conns, upstream, pushed, delivered>>

\* the store of a run of the stream client: nothing stored
StreamStoreInit ==
  /\ caches = EmptyDict
  /\ orderbooks = EmptyDict
  /\ orderbooks_keys = <<>>
  /\ liquidity_metrics = EmptyDict
  /\ price_history = EmptyDict
  /\ locks = EmptyDict
  /\ tick_tasks = <<>>
  /\ applied = [k \in StreamKeys |-> 0]

\* the client of one venue after start() and after the subscription of one
\* market or of two: connected, its first task waiting in recv
InitStream ==
  /\ StreamStoreInit
  /\ call = NoCall
  /\ task = [t \in Tasks |-> IdleTask]
  /\ connected_clients = {}
  /\ client_subscriptions = EmptyDict
  /\ cadence = IdleCadence
  /\ sent = <<>>
  /\ tick_runs = <<>>
  /\ venue \in Venues
  /\ ws = 1
  /\ connected = TRUE
  /\ subscriptions \in {SubSeq(Markets(venue), 1, k) : k \in 1..2}
  /\ receive_tasks = <<ReceiveTask("recv", 1, 0)>>
  /\ conns = <<[open |-> TRUE, inbox |-> <<>>]>>
  /\ upstream = [i \in 1..Len(subscriptions) |-> [ws |-> 1, channel |-> subscriptions[i]]]
  /\ pushed = 0
  /\ delivered = <<>>
  /\ SubInit
  /\ session = [c \in {} |-> NoSession]
  /\ hyperliquid_subscriptions = {}
  /\ calculator = IdleCalculator
  /\ should_stop = FALSE
  /\ stop = NoStop
  /\ venue_book = NoBook

NextStream ==
  \/ VenueSends
  \/ TransportFails
  \/ Receive
  \/ RecvRaises
  \/ ReconnectWake
  \/ ConnectSucceeds
  \/ ConnectFails
  \/ TaskStart
  \/ ResubSent
  \/ ResubSendFails

SpecStream == InitStream /\ [][NextStream]_vars

\* the frames delivered to the store for a channel, oldest first
DeliveredOf(channel) == SelectSeq(delivered, LAMBDA d : d.channel = channel)

\* C13: within one (venue, market) the frames are applied in the order the
\* adapter received them on their connection, before a reconnect and after
\* it, and the snapshots are published in that same order: the frames of a
\* connection are applied in the order the venue sent them, the snapshot
\* published for the key is always the one of the frame applied last, and the
\* tick-price callbacks of the key carry, in order, the times of the frames
\* applied.  The venue numbers its frames with their time.
C13_AppliedInReceivedOrder ==
  \A i \in 1..2 :
    LET channel == Markets(venue)[i]
        key == <<venue, channel>>
        frames == DeliveredOf(channel)
        ticks == TicksOf(key)
    IN /\ \A a \in 1..Len(frames) : \A b \in 1..Len(frames) :
            (a < b /\ frames[a].ws = frames[b].ws) => frames[a].time < frames[b].time
       /\ frames # <<>> =>
            /\ key \in DOMAIN orderbooks
            /\ orderbooks[key].timestamp = frames[Len(frames)].time
       /\ Len(ticks) = Len(frames)
       /\ \A a \in 1..Len(frames) : ticks[a].timestamp = frames[a].time

\* two frames of one market were applied, the first received on the first
\* connection and the second on a connection opened by a reconnect
C13_Witness ==
  /\ Len(delivered) = 2
  /\ delivered[1].channel = delivered[2].channel
  /\ delivered[1].ws = 1 /\ delivered[2].ws > 1
  /\ orderbooks[<<venue, delivered[2].channel>>].timestamp = delivered[2].time

\* the subscribe frames sent on a connection for a channel
FramesSent(n, channel) ==
  Cardinality({i \in 1..Len(upstream) : upstream[i] = [ws |-> n, channel |-> channel]})

\* C17: after a transport failure, on every connection the client reopens, it
\* sends one subscribe frame per active subscription and never two, and no
\* frame received on that connection, its transport still open, is delivered
\* to the store before the subscribe frames of all active subscriptions have
\* been sent on it.
C17_ReplayBeforeDelivery ==
  /\ [](\A n \in 2..Len(conns) : \A i \in 1..Len(subscriptions) :
          FramesSent(n, subscriptions[i]) <= 1)
  /\ [][delivered' # delivered =>
          LET d == delivered'[Len(delivered')]
          IN (d.ws >= 2 /\ conns[d.ws].open) =>
               \A i \in 1..Len(subscriptions) : FramesSent(d.ws, subscriptions[i]) = 1]_vars

\* a task of _receive_messages is on its way to reopen the transport
Reconnecting == \E t \in 1..Len(receive_tasks) : receive_tasks[t].pc \in {"sleep", "connect"}

\* C18: with auto-reconnect on and no shutdown requested, a client that is
\* not connected always has a task that is waiting to reopen the transport or
\* reopening it, so that it comes back to the connected state once the venue
\* can be reached; a reconnection attempt that fails does not leave the
\* client disconnected with nothing trying any more.
C18_KeepsTryingToReconnect == ~is_connected => Reconnecting

\* a step in which a task of _receive_messages took the oldest frame of connection n
Popped(n) ==
  /\ n <= Len(conns)
  /\ conns[n].inbox # <<>>
  /\ Len(conns') = Len(conns)
  /\ conns'[n].inbox = Tail(conns[n].inbox)

WellFormed(msg) == msg.kind = "book"

\* the task that waits in recv of connection n waits there after the step too
StillReceiving(n) ==
  \E t \in 1..Len(receive_tasks) :
    /\ receive_tasks[t] = ReceiveTask("recv", n, 0)
    /\ receive_tasks'[t] = ReceiveTask("recv", n, 0)

\* C20: a frame that fails to parse (not JSON, a book that lacks a field, a
\* level that is not a number) is dropped.  The step that receives it leaves
\* the books, the snapshots, the metrics, the price history and the callbacks
\* of every key as they were, delivers nothing, and leaves the client as
\* connected as it was, no task going to reconnect: a task receiving on the
\* connection of a connected client waits in recv of that connection again.
\* A well-formed frame received next, or at any time, is delivered and its
\* snapshot published.
C20_MalformedFrameDropped ==
  [][\A n \in 1..Len(conns) :
       Popped(n) =>
         LET msg == Head(conns[n].inbox)
             key == <<venue, msg.channel>>
         IN /\ ~WellFormed(msg) =>
                 /\ UNCHANGED <<storeVars, call, delivered>>
                 /\ UNCHANGED <<connected, ws>>
                 /\ (is_connected /\ n = ws) => StillReceiving(n)
                 /\ Reconnecting' => (Reconnecting \/ ~(is_connected /\ n = ws))
            /\ WellFormed(msg) =>
                 /\ delivered' = Append(delivered, [ws |-> n, channel |-> msg.channel,
                                                    time |-> msg.time])
                 /\ key \in DOMAIN orderbooks'
                 /\ orderbooks'[key].timestamp = msg.time
                 /\ liquidity_metrics'[key].timestamp = msg.time]_vars

\* on the first connection, never failed, the first frame of the venue was
\* dropped and the second one, well-formed, is the only one delivered and the
\* one published
C20_Witness ==
  /\ Len(conns) = 1 /\ conns[1].open /\ conns[1].inbox = <<>>
  /\ pushed = 2
  /\ delivered = <<[ws |-> 1, channel |-> Markets(venue)[1], time |-> 2]>>
  /\ orderbooks[<<venue, Markets(venue)[1]>>].timestamp = 2
  /\ receive_tasks = <<ReceiveTask("recv", 1, 0)>>

(***************************************************************************)
(* backend/connection_manager.py: subscribe_lighter, called by the tasks   *)
(* of the client connections (main.py handle_subscribe), and               *)
(* _periodic_rest_fetch.  A task is suspended in the REST call and in the  *)
(* send of the subscribe frame.  The stream client is the one of venue L;  *)
(* its transport does not fail in these runs.                              *)
(***************************************************************************)
\* calls of subscribe_lighter in a run
MaxRequests == 2

\* cycles of _periodic_rest_fetch in a run
MaxCycles == 2

\* the tasks of two client connections
SubTasks == 1..2

LighterMarkets == Markets("lighter")

\* list(self.lighter_subscriptions): the market indices 0 and 1 in the order
\* a set of small integers is iterated
RestOrder == <<"market_0", "market_1">>

\* the books the REST API of venue L answers with
RestFrames == BookFrames \ LockFrames

\* a REST client that was never made
NoRestClient == FALSE

\* self.lighter_rest_client, made by _start_lighter_rest before any subscription
lighter_rest_client == TRUE

\* a subscription that is not recorded
RecordNothing(subs, market) == subs

\* self.lighter_subscriptions.add(market_index)
RecordSubscribed(subs, market) == subs \cup {market}

IdleSubTask == [pc |-> "idle", market |-> ""]

\* _periodic_rest_fetch is in its for loop over the fetched books, which has
\* no suspension point: no other task of the event loop runs meanwhile
InRestLoop == rest_fetch.pc = "apply"

\* subscribe_lighter from the call of subscribe_orderbook to its send: the
\* client that is not connected raises ConnectionError, which subscribe_lighter
\* catches; else the client stores the callback and the subscription
ToSubscribeOrderbook(s, market) ==
  IF is_connected
  THEN /\ subscriptions' = IF InSeq(market, subscriptions) THEN subscriptions
                           ELSE Append(subscriptions, market)
       /\ sub_tasks' = [sub_tasks EXCEPT ![s] = [pc |-> "send", market |-> market]]
  ELSE /\ UNCHANGED subscriptions
       /\ sub_tasks' = [sub_tasks EXCEPT ![s] = IdleSubTask]

\* subscribe_lighter is called: it returns for a market already subscribed,
\* else it goes to the REST call
SubscribeCall ==
  /\ ~InRestLoop
  /\ requests < MaxRequests
  /\ \E s \in SubTasks, i \in 1..Len(LighterMarkets) :
       /\ sub_tasks[s].pc = "idle"
       /\ requests' = requests + 1
       /\ IF LighterMarkets[i] \in lighter_subscriptions
          THEN UNCHANGED <<sub_tasks, subscriptions>>
          ELSE IF lighter_rest_client
               THEN /\ sub_tasks' = [sub_tasks EXCEPT ![s] =
                                       [pc |-> "rest", market |-> LighterMarkets[i]]]
                    /\ UNCHANGED subscriptions
               ELSE ToSubscribeOrderbook(s, LighterMarkets[i])
  /\ UNCHANGED <<storeVars, call, task, clientVars, sessionVars, tick_runs, venue, ws, connected,
                 receive_tasks, conns, upstream, pushed, delivered, lighter_subscriptions,
                 rest_fetch, history>>

\* subscribe_lighter: get_orderbook_orders returns a book, which
\* initialize_orderbook stores
RestReturnsBook ==
  /\ ~InRestLoop
  /\ \E s \in SubTasks, frame \in RestFrames, timestamp \in StoreTimestamps :
       /\ sub_tasks[s].pc = "rest"
       /\ InitializeOrderbook(<<"lighter", sub_tasks[s].market>>, frame, timestamp)
       /\ history' = history \o
                       <<[type |-> "rest", task |-> s, market |-> sub_tasks[s].market,
                          ok |-> TRUE],
                         [type |-> "snapshot", task |-> s, market |-> sub_tasks[s].market,
                          ok |-> TRUE]>>
       /\ ToSubscribeOrderbook(s, sub_tasks[s].market)
  /\ UNCHANGED <<task, clientVars, sessionVars, tick_runs, venue, ws, connected, receive_tasks, conns,
                 upstream, pushed, delivered, lighter_subscriptions, requests, rest_fetch>>

\* subscribe_lighter: get_orderbook_orders returns None or raises
RestReturnsNothing ==
  /\ ~InRestLoop
  /\ \E s \in SubTasks :
       /\ sub_tasks[s].pc = "rest"
       /\ history' = Append(history, [type |-> "rest", task |-> s,
                                      market |-> sub_tasks[s].market, ok |-> FALSE])
       /\ ToSubscribeOrderbook(s, sub_tasks[s].market)
  /\ UNCHANGED <<storeVars, call, task, clientVars, sessionVars, tick_runs, venue, ws, connected,
                 receive_tasks, conns, upstream, pushed, delivered, lighter_subscriptions,
                 requests, rest_fetch>>

\* subscribe_lighter: the send of the subscribe frame returns and the market
\* is recorded
SubscribeSent ==
  /\ ~InRestLoop
  /\ \E s \in SubTasks :
       /\ sub_tasks[s].pc = "send"
       /\ upstream' = Append(upstream, [ws |-> ws, channel |-> sub_tasks[s].market])
       /\ lighter_subscriptions' = RecordSubscribed(lighter_subscriptions, sub_tasks[s].market)
       /\ history' = Append(history, [type |-> "subscribe", task |-> s,
                                      market |-> sub_tasks[s].market, ok |-> TRUE])
       /\ sub_tasks' = [sub_tasks EXCEPT ![s] = IdleSubTask]
  /\ UNCHANGED <<storeVars, call, task, clientVars, sessionVars, tick_runs, venue, ws, connected,
                 subscriptions, receive_tasks, conns, pushed, delivered, requests,
                 rest_fetch>>

\* the markets of a list that are in a set, in the order of the list
RECURSIVE Restrict(_, _)
Restrict(list, S) ==
  IF list = <<>> THEN <<>>
  ELSE IF Head(list) \in S THEN <<Head(list)>> \o Restrict(Tail(list), S)
       ELSE Restrict(Tail(list), S)

\* a fetch of which one failure loses every book
FetchedAllOrNothing(markets, failed) ==
  IF failed = {} THEN markets ELSE <<>>

\* get_multiple_orderbooks: the markets whose result is a book
FetchedOrderbooks(markets, failed) ==
  Restrict(markets, {markets[i] : i \in 1..Len(markets)} \ failed)

\* _periodic_rest_fetch: the sleep returns; with a market subscribed it
\* calls get_multiple_orderbooks for the subscribed markets
RestCycleStart ==
  /\ rest_fetch.pc = "sleep"
  /\ rest_fetch.cycles < MaxCycles
  /\ rest_fetch' =
       IF lighter_subscriptions = {}
       THEN [rest_fetch EXCEPT !.cycles = rest_fetch.cycles + 1]
       ELSE [rest_fetch EXCEPT !.pc = "fetch",
                               !.cycles = rest_fetch.cycles + 1,
                               !.markets = Restrict(RestOrder, lighter_subscriptions)]
  /\ UNCHANGED <<storeVars, call, task, clientVars, sessionVars, tick_runs, streamVars,
                 lighter_subscriptions, sub_tasks, requests, history>>

\* _periodic_rest_fetch: get_multiple_orderbooks returns the books of the
\* markets whose fetch did not fail; with none the cycle ends
RestCycleFetched ==
  /\ rest_fetch.pc = "fetch"
  /\ \E failed \in SUBSET {rest_fetch.markets[i] : i \in 1..Len(rest_fetch.markets)} :
       LET books == FetchedOrderbooks(rest_fetch.markets, failed)
       IN rest_fetch' = [rest_fetch EXCEPT !.pc = IF books = <<>> THEN "sleep" ELSE "apply",
                                           !.failed = failed,
                                           !.remaining = books]
  /\ UNCHANGED <<storeVars, call, task, clientVars, sessionVars, tick_runs, streamVars,
                 lighter_subscriptions, sub_tasks, requests, history>>

\* _periodic_rest_fetch: initialize_orderbook stores the next book of the
\* cycle; after the last one the task sleeps
RestCycleApply ==
  /\ rest_fetch.pc = "apply"
  /\ \E frame \in RestFrames, timestamp \in StoreTimestamps :
       InitializeOrderbook(<<"lighter", Head(rest_fetch.remaining)>>, frame, timestamp)
  /\ rest_fetch' = [rest_fetch EXCEPT !.remaining = Tail(@),
                                      !.pc = IF Tail(rest_fetch.remaining) = <<>>
                                             THEN "sleep" ELSE "apply"]
  /\ UNCHANGED <<task, clientVars, sessionVars, tick_runs, streamVars, lighter_subscriptions, sub_tasks,
                 requests, history>>

\* the connection manager after start(): the stream client of venue L
\* connected, or not when its connect failed; no market subscribed
InitSubscribe ==
  /\ StreamStoreInit
  /\ call = NoCall
  /\ task = [t \in Tasks |-> IdleTask]
  /\ connected_clients = {}
  /\ client_subscriptions = EmptyDict
  /\ cadence = IdleCadence
  /\ sent = <<>>
  /\ tick_runs = <<>>
  /\ venue = "lighter"
  /\ connected \in BOOLEAN
  /\ ws = IF connected THEN 1 ELSE 0
  /\ subscriptions = <<>>
  /\ receive_tasks = IF connected THEN <<ReceiveTask("recv", 1, 0)>> ELSE <<>>
  /\ conns = IF connected THEN <<[open |-> TRUE, inbox |-> <<>>]>> ELSE <<>>
  /\ upstream = <<>>
  /\ pushed = 0
  /\ delivered = <<>>
  /\ lighter_subscriptions = {}
  /\ sub_tasks = [s \in SubTasks |-> IdleSubTask]
  /\ requests = 0
  /\ rest_fetch = IdleRestFetch
  /\ history = <<>>
  /\ session = [c \in {} |-> NoSession]
  /\ hyperliquid_subscriptions = {}
  /\ calculator = IdleCalculator
  /\ should_stop = FALSE
  /\ stop = NoStop
  /\ venue_book = NoBook

NextSubscribe ==
  \/ SubscribeCall
  \/ RestReturnsBook
  \/ RestReturnsNothing
  \/ SubscribeSent
  \/ RestCycleStart
  \/ RestCycleFetched
  \/ RestCycleApply
  \/ VenueSends
  \/ Receive

SpecSubscribe == InitSubscribe /\ [][NextSubscribe]_vars

(***************************************************************************)
(* Claims about subscribe_lighter and _periodic_rest_fetch.                *)
(***************************************************************************)
\* the initial REST calls subscribe_lighter has made for a market
RestAttempts(market) ==
  Cardinality({i \in 1..Len(history) : history[i].type = "rest" /\ history[i].market = market})

\* C14: whatever the number of subscribe requests for a market of venue L and
\* their interleaving, at most one subscribe frame for the market is sent on
\* the connection, and the initial REST snapshot is made at most once.
C14_SubscribeIdempotent ==
  \A m \in {LighterMarkets[i] : i \in 1..Len(LighterMarkets)} :
    /\ \A n \in 1..Len(conns) : FramesSent(n, m) <= 1
    /\ RestAttempts(m) <= 1

\* the events of a type in the history
EventsOf(type) == {i \in 1..Len(history) : history[i].type = type}

\* C15: every subscribe frame sent for a market of venue L comes after an
\* initial REST call for the market by the same call of subscribe_lighter, and
\* a REST call that returns a book has stored it with initialize_orderbook, as
\* a snapshot, in the step it returns, when the frame is not sent yet.
C15_RestSnapshotBeforeSubscribeFrame ==
  /\ [](/\ Cardinality(EventsOf("subscribe")) = Len(upstream)
        /\ \A j \in EventsOf("subscribe") :
             \E i \in EventsOf("rest") :
               /\ i < j
               /\ history[i].task = history[j].task
               /\ history[i].market = history[j].market
               /\ \A k \in (i + 1)..(j - 1) :
                    history[k].task = history[i].task => history[k].type = "snapshot")
  /\ [][\A s \in SubTasks :
          (sub_tasks[s].pc = "rest" /\ sub_tasks'[s].pc # "rest") =>
            LET e == history'[Len(history) + 1]
                key == <<"lighter", sub_tasks[s].market>>
            IN /\ Len(history') > Len(history)
               /\ e.type = "rest" /\ e.task = s /\ e.market = sub_tasks[s].market
               /\ upstream' = upstream
               /\ IF e.ok
                  THEN /\ call'.op = "initialize"
                       /\ call'.key = key
                       /\ call'.is_snapshot
                       /\ applied'[key] = applied[key] + 1
                       /\ key \in DOMAIN orderbooks'
                       /\ orderbooks'[key].timestamp = call'.timestamp
                  ELSE UNCHANGED storeVars]_vars

C15_Witness ==
  /\ Len(history) = 3
  /\ history[1].type = "rest" /\ history[1].ok
  /\ history[3].type = "subscribe"
  /\ upstream = <<[ws |-> 1, channel |-> history[3].market]>>
  /\ call.op = "initialize"
  /\ <<"lighter", history[3].market>> \in DOMAIN orderbooks

\* the cache of a key holds a book: initialize has run on it
Seeded(cs, key) == key \in DOMAIN cs /\ IsInitialized(cs[key])

EntryOf(d, key) == IF key \in DOMAIN d THEN <<d[key]>> ELSE <<>>

\* C19: in a cycle of _periodic_rest_fetch, the book, the published snapshot
\* and the metrics of a market whose fetch failed are left as they were by
\* every step of the cycle; the books of all markets whose fetch succeeded are
\* stored with initialize_orderbook before the cycle ends; the cycle changes
\* nothing of the stream client, which goes on applying the diffs it receives;
\* and the cycle ends in the sleep of the loop, from which the next cycle starts
\* (the bound MaxCycles apart).
C19_FailedRestCycleSkipped ==
  [][/\ (rest_fetch.pc = "fetch" /\ rest_fetch'.pc # "fetch") =>
          /\ UNCHANGED <<storeVars, streamVars>>
          /\ \A i \in 1..Len(rest_fetch.markets) :
               rest_fetch.markets[i] \notin rest_fetch'.failed =>
                 InSeq(rest_fetch.markets[i], rest_fetch'.remaining)
          /\ \A m \in rest_fetch'.failed : ~InSeq(m, rest_fetch'.remaining)
          /\ rest_fetch'.pc = IF rest_fetch'.remaining = <<>> THEN "sleep" ELSE "apply"
     /\ (rest_fetch.pc = "apply" /\ rest_fetch' # rest_fetch) =>
          LET m == Head(rest_fetch.remaining)
          IN /\ call'.op = "initialize" /\ call'.key = <<"lighter", m>>
             /\ applied'[<<"lighter", m>>] = applied[<<"lighter", m>>] + 1
             /\ rest_fetch'.remaining = Tail(rest_fetch.remaining)
             /\ rest_fetch'.pc = IF rest_fetch'.remaining = <<>> THEN "sleep" ELSE "apply"
             /\ UNCHANGED streamVars
             /\ \A f \in rest_fetch.failed :
                  /\ EntryOf(caches', <<"lighter", f>>) = EntryOf(caches, <<"lighter", f>>)
                  /\ EntryOf(orderbooks', <<"lighter", f>>) =
                       EntryOf(orderbooks, <<"lighter", f>>)
                  /\ EntryOf(liquidity_metrics', <<"lighter", f>>) =
                       EntryOf(liquidity_metrics, <<"lighter", f>>)]_vars

\* the second cycle has started after a cycle in which the fetch of one market
\* failed and the book of the other was stored, and a diff of the stream was
\* applied after that
C19_Witness ==
  /\ rest_fetch.cycles = 2
  /\ rest_fetch.pc = "fetch"
  /\ rest_fetch.failed = {"market_1"}
  /\ lighter_subscriptions = {"market_0", "market_1"}
  /\ applied[<<"lighter", "market_0">>] >= 2
  /\ call.op = "update"
  /\ call.key = <<"lighter", "market_1">>
  /\ Len(delivered) >= 1

(***************************************************************************)
(* backend/orderbook_manager.py: _update_price_history under timestamps    *)
(* that the venues choose.  The timestamp of a frame of venue H is the     *)
(* time field of the frame, the one of venue L its offset field; nothing   *)
(* orders them.                                                            *)
(***************************************************************************)
\* the timestamps of the frames, in units of price_history_seconds
HistoryTimestamps == 1..(MaxTs + 1)

\* _handle_hyperliquid_update with the time the frame carries
HyperliquidAnyTime ==
  /\ CanWrite
  /\ \E frame \in BookFrames, timestamp \in HistoryTimestamps :
       HandleHyperliquidUpdate(frame, timestamp)
  /\ UNCHANGED <<task, clientVars, adapterVars>>

\* _handle_lighter_update with the offset the frame carries
LighterAnyTime ==
  /\ CanWrite
  /\ \E frame \in BookFrames, timestamp \in HistoryTimestamps :
       HandleLighterUpdate(frame, timestamp)
  /\ UNCHANGED <<task, clientVars, adapterVars>>

NextHistory ==
  \/ HyperliquidAnyTime
  \/ LighterAnyTime

SpecHistory == Init /\ [][NextHistory]_vars

\* the timestamps a price history retains
RetainedTimestamps(key) ==
  {price_history[key][i].timestamp : i \in 1..Len(price_history[key])}

\* C28: for every (venue, market) the price history holds at most one entry
\* per update applied, and the smallest timestamp it retains is within
\* price_history_seconds of the largest one.
C28_PriceHistoryBound ==
  \A key \in DOMAIN price_history :
    /\ Len(price_history[key]) <= applied[key]
    /\ price_history[key] # <<>> =>
         SetMax(RetainedTimestamps(key)) - SetMin(RetainedTimestamps(key))
           <= price_history_seconds

(***************************************************************************)
(* Claims about the metrics the store holds (liquidity_calculator.py).     *)
(* Notional is in units of 500 USD: 0.01 USD is 1 / 50000 of a unit.       *)
(***************************************************************************)
\* the notional still unfilled when the walk of a side from level i on ends,
\* rem being unfilled before level i
RECURSIVE LeftUnfilled(_, _, _)
LeftUnfilled(levels, i, rem) ==
  IF i > Len(levels) \/ rem <= 0 THEN rem
  ELSE IF levels[i].price * levels[i].size >= rem THEN 0
       ELSE LeftUnfilled(levels, i + 1, rem - levels[i].price * levels[i].size)

\* a metric of a side is feasible exactly when at most 0.01 USD is unfilled
\* after the walk, and a feasible metric costs the requested size within 0.01 USD
WalkerBound(metric, side) ==
  LET diff == metric.total_cost - metric.size_usd
  IN /\ metric.feasible <=>
          (side # <<>> /\ LeftUnfilled(side, 1, metric.size_usd) * 50000 <= 1)
     /\ metric.feasible => (diff * 50000 <= 1 /\ (0 - diff) * 50000 <= 1)

\* C29: for the book of every published snapshot and every requested size,
\* the buy and the sell metric are feasible exactly when the notional left
\* unfilled after walking the side is at most 0.01, and every feasible metric
\* has |total_cost - size| <= 0.01.
C29_FeasibleAndCostBound ==
  \A key \in DOMAIN liquidity_metrics :
    \A i \in DOMAIN liquidity_metrics[key].metrics :
      /\ liquidity_metrics[key].metrics[i].buy.size_usd = LIQUIDITY_SIZES[i]
      /\ liquidity_metrics[key].metrics[i].sell.size_usd = LIQUIDITY_SIZES[i]
      /\ WalkerBound(liquidity_metrics[key].metrics[i].buy, orderbooks[key].asks)
      /\ WalkerBound(liquidity_metrics[key].metrics[i].sell, orderbooks[key].bids)

\* a buy of 10 units was filled over two ask levels and a buy of 20 units
\* was not filled though it used levels
C29_Witness ==
  \E key \in DOMAIN liquidity_metrics :
    /\ Len(liquidity_metrics[key].metrics) >= 3
    /\ liquidity_metrics[key].metrics[2].buy.feasible
    /\ liquidity_metrics[key].metrics[2].buy.levels_used = 2
    /\ ~liquidity_metrics[key].metrics[3].buy.feasible
    /\ liquidity_metrics[key].metrics[3].buy.total_cost > 0
    /\ liquidity_metrics[key].metrics[1].sell.feasible

\* avg_price >= mid for a buy, avg_price <= mid for a sell (sign -1), the
\* average being the pair <<n, d>> with d > 0
OnRightSideOfMid(metric, mid, sign) ==
  /\ sign * (metric.avg_price[1] - mid * metric.avg_price[2]) >= 0
  /\ metric.slippage_bps[1] >= 0

\* C30: in the metrics stored for any published snapshot, every feasible buy
\* metric has avg_price >= mid and every feasible sell metric has
\* avg_price <= mid: slippage_bps is never negative for a feasible fill.
C30_FeasibleSlippageNonNegative ==
  \A key \in DOMAIN liquidity_metrics :
    \A i \in DOMAIN liquidity_metrics[key].metrics :
      LET m == liquidity_metrics[key].metrics[i]
          mid == MidPrice(orderbooks[key])
      IN /\ m.buy.feasible => OnRightSideOfMid(m.buy, mid, 1)
         /\ m.sell.feasible => OnRightSideOfMid(m.sell, mid, 0 - 1)

(***************************************************************************)
(* backend/main.py: websocket_endpoint, heartbeat_monitor, handle_subscribe *)
(* and handle_unsubscribe, together with the cadence broadcaster.  Each    *)
(* client connection has an endpoint task and a heartbeat task; a task is  *)
(* suspended in receive_json, in every send_json and in asyncio.sleep.     *)
(* The venues have published a book of BTC each and the adapters are       *)
(* subscribed upstream to every symbol, so that subscribe_hyperliquid and  *)
(* subscribe_lighter return at once; no venue writes during these runs.    *)
(* A send to a client raises when the transport of the client is dead,     *)
(* and receive_json of a dead transport raises WebSocketDisconnect.        *)
(***************************************************************************)
\* frames the clients send, and 60 s timeouts of their endpoints, in a run
MaxClientFrames == 2

\* the WebSocket objects of two clients
Websockets == {"client1", "client2"}

\* the symbols a client asks for
Symbols == {"BTC", "ETH"}

\* config.py LIGHTER_MARKET_MAP, as the market name of the store
LighterMarketOf(symbol) ==
  CASE symbol = "ETH" -> "market_0"
    [] symbol = "BTC" -> "market_1"
    [] symbol = "SOL" -> "market_2"

\* the iterations the while loops of the endpoints have started
RECURSIVE FramesReceived(_)
FramesReceived(S) ==
  IF S = {} THEN 0
  ELSE LET c == CHOOSE x \in S : TRUE IN session[c].frames + FramesReceived(S \ {c})

\* set.discard that removes nothing
DiscardNothing(S, x) == S

\* set.discard
Discard(S, x) == S \ {x}

\* a discard that empties the set
DiscardAll(S, x) == {}

\* handle_unsubscribe: client_subscriptions[websocket].discard(market)
DiscardSymbol(S, x) == S \ {x}

\* a branch that leaves the entry of the client in client_subscriptions
DelNothing(subs, c) == subs

\* del client_subscriptions[websocket], when the key is there
DelClient(subs, c) == [x \in DOMAIN subs \ {c} |-> subs[x]]

\* the finally block of websocket_endpoint after the heartbeat task has ended
Cleanup(c) ==
  /\ connected_clients' = Discard(connected_clients, c)
  /\ client_subscriptions' = DelClient(client_subscriptions, c)

\* an exception, or the break after a failed ping, leaves the while loop of
\* websocket_endpoint: the finally block cancels the heartbeat task and awaits
\* it, which suspends the endpoint when the heartbeat task has not ended yet
Leaves(c) ==
  IF session[c].hb \in {"sleep", "ping"}
  THEN /\ session' = [session EXCEPT ![c].pc = "closing", ![c].hb = "done", ![c].symbol = ""]
       /\ UNCHANGED <<connected_clients, client_subscriptions>>
  ELSE /\ session' = [session EXCEPT ![c].pc = "closed", ![c].symbol = ""]
       /\ Cleanup(c)

\* websocket_endpoint: accept returns; the client is registered and its
\* heartbeat task is made
Accept ==
  /\ \E c \in Websockets :
       /\ session[c].pc = "new"
       /\ session' = [session EXCEPT ![c].pc = "receive", ![c].hb = "sleep"]
       /\ connected_clients' = connected_clients \cup {c}
       /\ client_subscriptions' = DictSet(client_subscriptions, c, {})
  /\ UNCHANGED <<storeVars, call, task, cadence, sent, tick_runs, streamVars, subVars,
                 hyperliquid_subscriptions, venue_book, calculator, should_stop,
                 stop>>

\* the endpoint, back from a handler, waits in receive_json again
ToReceive(c) == session' = [session EXCEPT ![c].pc = "receive", ![c].symbol = ""]

\* handle_subscribe after the send of the orderbook, or without one:
\* get_liquidity_metrics and, with metrics, send_liquidity_metrics
ToMetrics(c, symbol) ==
  IF <<"hyperliquid", symbol>> \in DOMAIN liquidity_metrics
  THEN session' = [session EXCEPT ![c].pc = "send_metrics", ![c].symbol = symbol]
  ELSE ToReceive(c)

\* websocket_endpoint receives a subscribe frame for one symbol and runs
\* handle_subscribe to its first suspension
SubscribeFrame ==
  /\ \E c \in Websockets, symbol \in Symbols :
       /\ session[c].pc = "receive" /\ session[c].alive
       /\ FramesReceived(Websockets) < MaxClientFrames
       /\ symbol \in hyperliquid_subscriptions
       /\ LighterMarketOf(symbol) \in lighter_subscriptions
       /\ IF c \notin DOMAIN client_subscriptions
          THEN /\ Leaves(c)
               /\ UNCHANGED locks
          ELSE /\ client_subscriptions' = [client_subscriptions EXCEPT ![c] = @ \cup {symbol}]
               /\ locks' = GetLock(locks, <<"hyperliquid", symbol>>)
               /\ UNCHANGED connected_clients
               /\ IF <<"hyperliquid", symbol>> \in DOMAIN orderbooks
                  THEN session' = [session EXCEPT ![c].pc = "send_orderbook",
                                                  ![c].symbol = symbol,
                                                  ![c].frames = @ + 1,
                                                  ![c].last = <<"subscribe", symbol>>]
                  ELSE IF <<"hyperliquid", symbol>> \in DOMAIN liquidity_metrics
                       THEN session' = [session EXCEPT ![c].pc = "send_metrics",
                                                       ![c].symbol = symbol,
                                                       ![c].frames = @ + 1,
                                                       ![c].last = <<"subscribe", symbol>>]
                       ELSE session' = [session EXCEPT ![c].frames = @ + 1,
                                                       ![c].last = <<"subscribe", symbol>>]
  /\ UNCHANGED <<caches, orderbooks, orderbooks_keys, liquidity_metrics, price_history,
                 tick_tasks, applied, call, task, cadence, sent, tick_runs, streamVars,
                 subVars, hyperliquid_subscriptions, venue_book, calculator, should_stop,
                 stop>>

\* websocket_endpoint receives an unsubscribe frame for one symbol:
\* handle_unsubscribe, which does not suspend
UnsubscribeFrame ==
  /\ \E c \in Websockets, symbol \in Symbols :
       /\ session[c].pc = "receive" /\ session[c].alive
       /\ FramesReceived(Websockets) < MaxClientFrames
       /\ IF c \notin DOMAIN client_subscriptions
          THEN Leaves(c)
          ELSE /\ client_subscriptions' =
                    [client_subscriptions EXCEPT ![c] = DiscardSymbol(@, symbol)]
               /\ session' = [session EXCEPT ![c].frames = @ + 1,
                                               ![c].last = <<"unsubscribe", symbol>>]
               /\ UNCHANGED connected_clients
  /\ UNCHANGED <<storeVars, call, task, cadence, sent, tick_runs, streamVars, subVars,
                 hyperliquid_subscriptions, venue_book, calculator, should_stop,
                 stop>>

\* websocket_endpoint receives a ping frame and starts to send the pong
PingFrame ==
  /\ \E c \in Websockets :
       /\ session[c].pc = "receive" /\ session[c].alive
       /\ FramesReceived(Websockets) < MaxClientFrames
       /\ session' = [session EXCEPT ![c].pc = "pong", ![c].frames = @ + 1,
                                       ![c].last = <<"ping", "">>]
  /\ UNCHANGED <<storeVars, call, task, clientVars, tick_runs, streamVars, subVars,
                 hyperliquid_subscriptions, venue_book, calculator, should_stop,
                 stop>>

\* wait_for raises TimeoutError after 60 s without a frame: the endpoint
\* starts to send a ping
ReceiveTimeout ==
  /\ \E c \in Websockets :
       /\ session[c].pc = "receive"
       /\ FramesReceived(Websockets) < MaxClientFrames
       /\ session' = [session EXCEPT ![c].pc = "ping", ![c].frames = @ + 1,
                                       ![c].last = <<"timeout", "">>]
  /\ UNCHANGED <<storeVars, call, task, clientVars, tick_runs, streamVars, subVars,
                 hyperliquid_subscriptions, venue_book, calculator, should_stop,
                 stop>>

\* receive_json raises WebSocketDisconnect: the transport is dead
ReceiveRaises ==
  /\ \E c \in Websockets :
       /\ session[c].pc = "receive" /\ ~session[c].alive
       /\ Leaves(c)
  /\ UNCHANGED <<storeVars, call, task, cadence, sent, tick_runs, streamVars, subVars,
                 hyperliquid_subscriptions, venue_book, calculator, should_stop,
                 stop>>

\* the frame of the endpoint's own sends
EndpointFrame(c) ==
  LET key == <<"hyperliquid", session[c].symbol>>
  IN CASE session[c].pc = "send_orderbook" -> OrderBookUpdate(c, orderbooks[key])
       [] session[c].pc = "send_metrics" -> LiquidityMetricsUpdate(c, liquidity_metrics[key])
       [] session[c].pc = "pong" -> [to |-> c, type |-> "pong"]
       [] session[c].pc = "ping" -> [to |-> c, type |-> "ping"]

\* a send_json of the endpoint returns
EndpointSent ==
  /\ \E c \in Websockets :
       /\ session[c].pc \in {"send_orderbook", "send_metrics", "pong", "ping"}
       /\ session[c].alive
       /\ sent' = Append(sent, EndpointFrame(c))
       /\ IF session[c].pc = "send_orderbook"
          THEN /\ ToMetrics(c, session[c].symbol)
               /\ locks' = GetLock(locks, <<"hyperliquid", session[c].symbol>>)
          ELSE /\ ToReceive(c)
               /\ UNCHANGED locks
  /\ UNCHANGED <<caches, orderbooks, orderbooks_keys, liquidity_metrics, price_history,
                 tick_tasks, applied, call, task, connected_clients, client_subscriptions,
                 cadence, tick_runs, streamVars, subVars, hyperliquid_subscriptions, venue_book, calculator, should_stop,
                 stop>>

\* a send_json of the endpoint raises: the exception, or the break after the
\* failed ping, leaves the while loop
EndpointSendFails ==
  /\ \E c \in Websockets :
       /\ session[c].pc \in {"send_orderbook", "send_metrics", "pong", "ping"}
       /\ ~session[c].alive
       /\ Leaves(c)
  /\ UNCHANGED <<storeVars, call, task, cadence, sent, tick_runs, streamVars, subVars,
                 hyperliquid_subscriptions, venue_book, calculator, should_stop,
                 stop>>

\* the cancelled heartbeat task has ended: the finally block goes on
EndpointClosed ==
  /\ \E c \in Websockets :
       /\ session[c].pc = "closing"
       /\ session' = [session EXCEPT ![c].pc = "closed"]
       /\ Cleanup(c)
  /\ UNCHANGED <<storeVars, call, task, cadence, sent, tick_runs, streamVars, subVars,
                 hyperliquid_subscriptions, venue_book, calculator, should_stop,
                 stop>>

\* heartbeat_monitor: the sleep of 30 s returns and the task starts to send a ping
HeartbeatWake ==
  /\ Len(sent) < MaxSent
  /\ \E c \in Websockets :
       /\ session[c].hb = "sleep"
       /\ session' = [session EXCEPT ![c].hb = "ping"]
  /\ UNCHANGED <<storeVars, call, task, clientVars, tick_runs, streamVars, subVars,
                 hyperliquid_subscriptions, venue_book, calculator, should_stop,
                 stop>>

\* heartbeat_monitor: the send of the ping returns
HeartbeatSent ==
  /\ \E c \in Websockets :
       /\ session[c].hb = "ping" /\ session[c].alive
       /\ sent' = Append(sent, [to |-> c, type |-> "ping"])
       /\ session' = [session EXCEPT ![c].hb = "sleep"]
  /\ UNCHANGED <<storeVars, call, task, connected_clients, client_subscriptions, cadence,
                 tick_runs, streamVars, subVars, hyperliquid_subscriptions, venue_book, calculator, should_stop,
                 stop>>

\* heartbeat_monitor: the send of the ping raises and the task ends
HeartbeatFails ==
  /\ \E c \in Websockets :
       /\ session[c].hb = "ping" /\ ~session[c].alive
       /\ session' = [session EXCEPT ![c].hb = "failed"]
  /\ UNCHANGED <<storeVars, call, task, clientVars, tick_runs, streamVars, subVars,
                 hyperliquid_subscriptions, venue_book, calculator, should_stop,
                 stop>>

\* the transport of a connected client dies
TransportDies ==
  /\ \E c \in Websockets :
       /\ session[c].pc \notin {"new", "closing", "closed"}
       /\ session[c].alive
       /\ session' = [session EXCEPT ![c].alive = FALSE]
  /\ UNCHANGED <<storeVars, call, task, clientVars, tick_runs, streamVars, subVars,
                 hyperliquid_subscriptions, venue_book, calculator, should_stop,
                 stop>>

\* the snapshot _update_from_cache publishes for the cache of a key
SnapshotOf(key, cache, timestamp) ==
  [exchange |-> key[1], market |-> key[2], bids |-> GetSortedLevels(cache).bids,
   asks |-> GetSortedLevels(cache).asks, timestamp |-> timestamp]

\* the store after each venue has delivered one book of BTC at time 1, while
\* no client was connected: the two tick callbacks ran over no client
SeededStore ==
  LET frame == CHOOSE f \in LockFrames : TRUE
      cs == UpdateCache(UpdateCache(EmptyDict, HyperliquidKey, frame.bids, frame.asks, 1, TRUE),
                        LighterKey, frame.bids, frame.asks, 1, FALSE)
      keys == <<HyperliquidKey, LighterKey>>
  IN /\ caches = cs
     /\ orderbooks = [key \in Keys |-> SnapshotOf(key, cs[key], 1)]
     /\ orderbooks_keys = keys
     /\ liquidity_metrics = [key \in Keys |-> CalculateAllMetrics(SnapshotOf(key, cs[key], 1))]
     /\ price_history =
          [key \in Keys |-> UpdatePriceHistory(<<>>, MidPrice(SnapshotOf(key, cs[key], 1)), 1)]
     /\ locks = [key \in Keys |-> NewLock]
     /\ tick_tasks = [i \in 1..2 |-> [exchange |-> keys[i][1], market |-> keys[i][2],
                                      price |-> MidPrice(SnapshotOf(keys[i], cs[keys[i]], 1)),
                                      timestamp |-> 1]]
     /\ applied = [key \in Keys |-> 1]
     /\ tick_runs = [i \in 1..2 |-> [pc |-> "done", client |-> "", remaining |-> {},
                                     size |-> 0, disconnected |-> {}]]

\* the backend after startup, the venues connected and subscribed, before any
\* client has connected
InitClients ==
  /\ SeededStore
  /\ call = NoCall
  /\ task = [t \in Tasks |-> IdleTask]
  /\ connected_clients = {}
  /\ client_subscriptions = EmptyDict
  /\ cadence = IdleCadence
  /\ sent = <<>>
  /\ venue = "lighter"
  /\ ws = 1
  /\ connected = TRUE
  /\ subscriptions = LighterMarkets
  /\ receive_tasks = <<ReceiveTask("recv", 1, 0)>>
  /\ conns = <<[open |-> TRUE, inbox |-> <<>>]>>
  /\ upstream = [i \in 1..Len(LighterMarkets) |-> [ws |-> 1, channel |-> LighterMarkets[i]]]
  /\ pushed = 0
  /\ delivered = <<>>
  /\ lighter_subscriptions = {LighterMarkets[i] : i \in 1..Len(LighterMarkets)}
  /\ sub_tasks = <<>>
  /\ requests = 0
  /\ rest_fetch = IdleRestFetch
  /\ history = <<>>
  /\ session = [c \in Websockets |-> NoSession]
  /\ hyperliquid_subscriptions = Symbols
  /\ calculator = IdleCalculator
  /\ should_stop = FALSE
  /\ stop = NoStop
  /\ venue_book = NoBook

NextClients ==
  \/ Accept
  \/ SubscribeFrame
  \/ UnsubscribeFrame
  \/ ReceiveRaises
  \/ EndpointSent
  \/ EndpointSendFails
  \/ EndpointClosed
  \/ TransportDies
  \/ CadenceWake
  \/ CadenceOrderbookSent
  \/ CadenceMetricsSent
  \/ CadenceSendFails

\* the clients and the cadence broadcaster in a run shorter than the 30 s of
\* the heartbeat and the 60 s of the receive timeout
SpecClients == InitClients /\ [][NextClients]_vars

NextHeartbeat ==
  \/ Accept
  \/ PingFrame
  \/ ReceiveTimeout
  \/ ReceiveRaises
  \/ EndpointSent
  \/ EndpointSendFails
  \/ EndpointClosed
  \/ HeartbeatWake
  \/ HeartbeatSent
  \/ HeartbeatFails
  \/ TransportDies

(***************************************************************************)
(* Claims on the clients and the cadence broadcaster                       *)
(***************************************************************************)
\* the broadcaster's send of the given type returns in this step
CadenceSends(type) ==
  /\ cadence.pc = (IF type = "orderbook_update" THEN "send_orderbook" ELSE "send_metrics")
  /\ cadence' # cadence
  /\ Len(sent') = Len(sent) + 1
  /\ sent'[Len(sent')].to = cadence.client
  /\ sent'[Len(sent')].type = type

\* C21: within one cadence tick a client is sent at most one orderbook_update
\* and at most one liquidity_metrics per (venue, market): a message the
\* broadcaster sends has not been sent to that client for that (venue, market)
\* since the broadcaster woke up
C21_OncePerTick ==
  [][\A type \in {"orderbook_update", "liquidity_metrics"} :
       CadenceSends(type) =>
         <<cadence.client, type,
           <<Head(cadence.orderbooks).exchange, Head(cadence.orderbooks).market>>>>
           \notin cadence.log]_vars

\* one tick has sent a client the book and the metrics of venue H and the
\* book of venue L
C21_Witness ==
  \E c \in Websockets :
    {<<c, "orderbook_update", HyperliquidKey>>, <<c, "liquidity_metrics", HyperliquidKey>>,
     <<c, "orderbook_update", LighterKey>>} \subseteq cadence.log

\* the broadcaster starts a send in this step
CadenceStartsSend ==
  /\ cadence' # cadence
  /\ cadence'.pc \in {"send_orderbook", "send_metrics"}

\* C22: the broadcaster sends a client an orderbook_update or a
\* liquidity_metrics of a (venue, market) only if, when the send starts, the
\* subscription set of the client holds the symbol of the market
C22_SubscriptionFiltering ==
  [][CadenceStartsSend =>
       SubscriptionKey(Head(cadence'.orderbooks))
         \in SubscriptionsOf(client_subscriptions', cadence'.client)]_vars

\* the for loop of broadcast_orderbook_update over the head of
\* cadence.orderbooks ends in this step, by exhaustion or by an exception
BroadcastEnds ==
  /\ cadence.orderbooks # <<>>
  /\ cadence'.orderbooks # cadence.orderbooks

\* the broadcast of the head of cadence.orderbooks has sent the client the
\* message of the type, in an earlier step or in this one
SentInBroadcast(c, type) ==
  LET orderbook == Head(cadence.orderbooks)
  IN \/ <<c, type, <<orderbook.exchange, orderbook.market>>>> \in cadence.log
     \/ /\ Len(sent') = Len(sent) + 1
        /\ sent'[Len(sent')].to = c
        /\ sent'[Len(sent')].type = type
        /\ sent'[Len(sent')].exchange = orderbook.exchange
        /\ sent'[Len(sent')].market = orderbook.market

\* the client was connected and subscribed to the head of cadence.orderbooks
\* when its broadcast started and still is, and its transport is alive
ThroughoutBroadcast(c) ==
  /\ c \in cadence.started
  /\ c \in connected_clients
  /\ SubscriptionKey(Head(cadence.orderbooks)) \in SubscriptionsOf(client_subscriptions, c)
  /\ session[c].alive

\* C23: when the cadence broadcast of a (venue, market) ends, every client
\* that was connected and subscribed throughout it has been sent the
\* orderbook_update and the liquidity_metrics, whatever happened to the other
\* clients
C23_ErrorsDoNotStopOthers ==
  [][BroadcastEnds =>
       \A c \in Websockets :
         ThroughoutBroadcast(c) =>
           /\ SentInBroadcast(c, "orderbook_update")
           /\ SentInBroadcast(c, "liquidity_metrics")]_vars

\* the clients a send of the broadcast of the head of cadence.orderbooks has
\* failed for, in an earlier step or in this one
FailedInBroadcast ==
  cadence.disconnected \cup
    (IF cadence.pc \in {"send_orderbook", "send_metrics"} /\ cadence' # cadence /\ sent' = sent
     THEN {cadence.client} ELSE {})

\* C24: when the cadence broadcast of a (venue, market) ends, every client a
\* send of the broadcast failed for is out of connected_clients and has no
\* entry in client_subscriptions
C24_SendErrorDisconnects ==
  [][BroadcastEnds =>
       \A c \in FailedInBroadcast :
         /\ c \notin connected_clients'
         /\ c \notin DOMAIN client_subscriptions']_vars

\* handle_subscribe of the client returns in this step, all its sends done
SubscribeHandled(c) ==
  /\ session[c].pc \in {"send_orderbook", "send_metrics"}
  /\ session'[c].pc = "receive"

\* the client has been sent the message of the type for the key
HasBeenSent(c, type, key) ==
  \E i \in 1..Len(sent') :
    /\ sent'[i].to = c
    /\ sent'[i].type = type
    /\ sent'[i].exchange = key[1]
    /\ sent'[i].market = key[2]

\* C26: when handle_subscribe returns for a symbol, the client has been sent
\* the orderbook_update and the liquidity_metrics of every market mapped from
\* the symbol, on venue H and on venue L, that the store holds a snapshot and
\* metrics for
C26_InitialEmission ==
  [][\A c \in Websockets :
       SubscribeHandled(c) =>
         \A key \in {<<"hyperliquid", session[c].symbol>>,
                     <<"lighter", LighterMarketOf(session[c].symbol)>>} :
           key \in DOMAIN orderbooks /\ key \in DOMAIN liquidity_metrics =>
             /\ HasBeenSent(c, "orderbook_update", key)
             /\ HasBeenSent(c, "liquidity_metrics", key)]_vars

\* handle_unsubscribe of the client has run for the symbol in this step
Unsubscribed(c, symbol) ==
  /\ c \in DOMAIN client_subscriptions
  /\ session[c].pc = "receive"
  /\ session'[c].frames = session[c].frames + 1
  /\ session'[c].last = <<"unsubscribe", symbol>>

\* C27: an unsubscribe takes the symbol out of the subscription set of the
\* requesting client and changes nothing else: not the sets of the other
\* clients, not the upstream subscriptions of the adapters (tracking sets and
\* replay list), not the book state; for a symbol the client does not hold it
\* changes nothing
C27_UnsubscribeFrame ==
  [][\A c \in Websockets, symbol \in Symbols :
       Unsubscribed(c, symbol) =>
         /\ client_subscriptions' =
              [client_subscriptions EXCEPT ![c] = client_subscriptions[c] \ {symbol}]
         /\ symbol \notin client_subscriptions[c] => client_subscriptions' = client_subscriptions
         /\ UNCHANGED <<connected_clients, hyperliquid_subscriptions, lighter_subscriptions,
                        subscriptions, upstream, storeVars>>]_vars

\* a client that subscribed to BTC and was sent its book has unsubscribed from
\* it while the other client is registered
C27_Witness ==
  \E c \in Websockets, d \in Websockets :
    /\ c # d
    /\ c \in DOMAIN client_subscriptions
    /\ session[c].last = <<"unsubscribe", "BTC">>
    /\ "BTC" \notin client_subscriptions[c]
    /\ \E i \in 1..Len(sent) : sent[i].to = c /\ sent[i].type = "orderbook_update"
    /\ d \in DOMAIN client_subscriptions

(***************************************************************************)
(* The endpoint and heartbeat tasks alone, under the scheduling of the     *)
(* event loop: a task whose awaited send or receive has raised, and an     *)
(* endpoint whose cancelled heartbeat task has ended, is resumed.           *)
(***************************************************************************)
SpecHeartbeat ==
  /\ InitClients
  /\ [][NextHeartbeat]_vars
  /\ WF_vars(ReceiveRaises)
  /\ WF_vars(EndpointSendFails)
  /\ WF_vars(EndpointClosed)
  /\ WF_vars(HeartbeatFails)

\* a send of a server ping to the client has failed: the ping of
\* heartbeat_monitor, or the ping of websocket_endpoint after the timeout
PingFailed(c) ==
  \/ session[c].hb = "failed"
  \/ session[c].last = <<"timeout", "">> /\ session[c].pc \in {"closing", "closed"}

\* the client is out of connected_clients and has no subscription set
Removed(c) == c \notin connected_clients /\ c \notin DOMAIN client_subscriptions

\* C25: a client a server ping could not be sent to, by heartbeat_monitor or
\* by websocket_endpoint after 60 s without a frame, is eventually removed
\* from the registry
C25_FailedPingRemoves == \A c \in Websockets : PingFailed(c) ~> Removed(c)

\* both pings have failed for clients that are now removed: the heartbeat
\* ping of one and the timeout ping of the other
C25_Witness ==
  \E c \in Websockets, d \in Websockets :
    /\ session[c].hb = "failed" /\ session[c].pc = "closed" /\ Removed(c)
    /\ session[d].last = <<"timeout", "">> /\ session[d].pc = "closed"
    /\ session[d].hb = "done" /\ Removed(d)

(***************************************************************************)
(* LiquidityCalculator.calculate_all_metrics as a function of its argument: *)
(* a caller passes any snapshot whose sides are sorted, an empty side      *)
(* included, and the call returns the ladder.                               *)
(***************************************************************************)
\* prices of the levels of an argument are 2, 4, .., 2 * MaxCalcPrice
MaxCalcPrice == 3

\* sizes of the levels of an argument are 1 .. MaxCalcSize
MaxCalcSize == 2

CalcLevels == {[price |-> 2 * p, size |-> z] : p \in 1..MaxCalcPrice, z \in 1..MaxCalcSize}

\* the sides of at most MaxLevels levels, the prices ascending
AskSides ==
  {<<>>} \cup {<<l>> : l \in CalcLevels}
         \cup {p \in {<<l, m>> : l \in CalcLevels, m \in CalcLevels} : p[1].price < p[2].price}

\* the sides of at most MaxLevels levels, the prices descending
BidSides ==
  {<<>>} \cup {<<l>> : l \in CalcLevels}
         \cup {p \in {<<l, m>> : l \in CalcLevels, m \in CalcLevels} : p[1].price > p[2].price}

\* OrderBookSnapshot(exchange, market, bids, asks, timestamp)
SampleSnapshots ==
  {[exchange |-> "hyperliquid", market |-> "BTC", bids |-> b, asks |-> a, timestamp |-> 1] :
     b \in BidSides, a \in AskSides}

\* a caller is about to pass a snapshot to calculate_all_metrics
InitCalculator ==
  /\ StoreInit
  /\ call = NoCall
  /\ task = [t \in Tasks |-> IdleTask]
  /\ connected_clients = {}
  /\ client_subscriptions = EmptyDict
  /\ cadence = IdleCadence
  /\ sent = <<>>
  /\ ConnectionInit
  /\ calculator \in {[pc |-> "called", orderbook |-> <<o>>, metrics |-> <<>>] :
                       o \in SampleSnapshots}

\* calculate_all_metrics returns
CalculatorReturns ==
  /\ calculator.pc = "called"
  /\ calculator' = [calculator EXCEPT !.pc = "returned",
                                      !.metrics = <<CalculateAllMetrics(calculator.orderbook[1])>>]
  /\ UNCHANGED <<storeVars, call, task, clientVars, tick_runs, streamVars, subVars, session,
                 hyperliquid_subscriptions, should_stop, stop,
                 venue_book>>

NextCalculator == CalculatorReturns

SpecCalculator == InitCalculator /\ [][NextCalculator]_vars

\* the notional of the first n levels of a side
RECURSIVE NotionalOf(_, _)
NotionalOf(levels, n) ==
  IF n = 0 THEN 0 ELSE NotionalOf(levels, n - 1) + levels[n].price * levels[n].size

\* the base units of the first n levels of a side
RECURSIVE UnitsOf(_, _)
UnitsOf(levels, n) == IF n = 0 THEN 0 ELSE UnitsOf(levels, n - 1) + levels[n].size

\* the number of levels walked from the best one until the running notional
\* first reaches the size, all levels when it never does
LevelsWalked(levels, size_usd) ==
  LET reached == {n \in 1..Len(levels) : NotionalOf(levels, n) >= size_usd}
  IN IF reached = {} THEN Len(levels) ELSE SetMin(reached)

\* the base units consumed, as the pair <<n, d>>: the sizes of the fully
\* consumed levels and, at a partially consumed last level, what is left of
\* the size over the price of the level
UnitsConsumed(levels, size_usd) ==
  LET k == LevelsWalked(levels, size_usd)
  IN IF NotionalOf(levels, k) >= size_usd
     THEN <<UnitsOf(levels, k - 1) * levels[k].price
              + (size_usd - NotionalOf(levels, k - 1)), levels[k].price>>
     ELSE <<UnitsOf(levels, k), 1>>

\* the metric of a non-empty side agrees with the reference
AgreesWithReference(metric, levels) ==
  LET whole == NotionalOf(levels, Len(levels))
      units == UnitsConsumed(levels, metric.size_usd)
  IN /\ metric.total_cost = (IF metric.size_usd < whole THEN metric.size_usd ELSE whole)
     /\ metric.levels_used = LevelsWalked(levels, metric.size_usd)
     /\ metric.avg_price[1] * units[1] = metric.total_cost * units[2] * metric.avg_price[2]
     /\ ~metric.feasible =>
          /\ metric.total_cost = whole
          /\ metric.avg_price[1] * UnitsOf(levels, Len(levels)) = whole * metric.avg_price[2]

\* C31: for every snapshot with two non-empty sorted sides and every size of
\* the ladder, the buy and the sell metric have total_cost = min(size, notional
\* of the side), levels_used = the levels walked until the running notional
\* first reaches the size, avg_price = total_cost over the base units consumed,
\* and an unfilled order reports the notional and the VWAP of the whole side
C31_WalkerReference ==
  calculator.pc = "returned" =>
    \A i \in DOMAIN calculator.metrics[1].metrics :
      /\ AgreesWithReference(calculator.metrics[1].metrics[i].buy, calculator.orderbook[1].asks)
      /\ AgreesWithReference(calculator.metrics[1].metrics[i].sell, calculator.orderbook[1].bids)

\* the ladder of a snapshot whose ask side has two levels: the smallest size
\* is filled within the first level, another size needs both levels and the
\* largest size is not filled
C31_Witness ==
  /\ calculator.pc = "returned"
  /\ Len(calculator.orderbook[1].asks) = 2
  /\ Len(calculator.metrics[1].metrics) = Len(LIQUIDITY_SIZES)
  /\ calculator.metrics[1].metrics[1].buy.levels_used = 1
  /\ calculator.metrics[1].metrics[1].buy.total_cost
       < NotionalOf(calculator.orderbook[1].asks, 1)
  /\ calculator.metrics[1].metrics[2].buy.feasible
  /\ calculator.metrics[1].metrics[2].buy.levels_used = 2
  /\ ~calculator.metrics[1].metrics[8].buy.feasible
  /\ calculator.metrics[1].metrics[8].buy.total_cost
       = NotionalOf(calculator.orderbook[1].asks, 2)

\* the ladder holds, for every configured size, the metric of an empty side
\* on the given side
EmptySideLadder(ladder, side) ==
  \A i \in 1..Len(LIQUIDITY_SIZES) :
    /\ i \in DOMAIN ladder
    /\ ladder[i][side] = EmptySideMetric(LIQUIDITY_SIZES[i])

C36_DerivedValuesDefined ==
  \A key \in DOMAIN orderbooks :
    LET snapshot == orderbooks[key]
    IN Len(snapshot.bids) > 0 /\ Len(snapshot.asks) > 0 =>
         /\ MidPrice(snapshot) # None
         /\ Spread(snapshot) # None
         /\ Spread(snapshot) = snapshot.asks[1].price - snapshot.bids[1].price
         /\ SpreadBps(snapshot) # None
         /\ SpreadBps(snapshot) = <<Spread(snapshot) * 10000, MidPrice(snapshot)>>

\* the sum of the sizes of the entries of a side at a price
RECURSIVE SizeAt(_, _, _)
SizeAt(levels, n, price) ==
  IF n = 0 THEN 0
  ELSE SizeAt(levels, n - 1, price) + (IF levels[n].price = price THEN levels[n].size ELSE 0)

\* the prices of a side all of whose entries have a positive size
RestingPrices(levels) ==
  {levels[i].price : i \in 1..Len(levels)}
    \ {levels[i].price : i \in {j \in 1..Len(levels) : levels[j].size <= 0}}

\* C35: after a snapshot has been delivered to the store, the size stored at a
\* price of a side is the sum of the sizes of the entries of the snapshot at
\* that price on that side
C35_AggregateSizeAtPrice ==
  call.op # "none" /\ call.is_snapshot =>
    /\ \A price \in RestingPrices(call.bids) :
         /\ price \in DOMAIN caches[call.key].bids
         /\ caches[call.key].bids[price] = SizeAt(call.bids, Len(call.bids), price)
    /\ \A price \in RestingPrices(call.asks) :
         /\ price \in DOMAIN caches[call.key].asks
         /\ caches[call.key].asks[price] = SizeAt(call.asks, Len(call.asks), price)

\* C39: in every reachable state the clients that have a subscription set are
\* the connected clients
C39_RegistryConsistent == DOMAIN client_subscriptions = connected_clients

\* a client whose endpoint is still running has been removed by a broadcast
\* after a send error, and the endpoint of another client has closed after a
\* subscribe
C39_Witness ==
  \E c \in Websockets, d \in Websockets :
    /\ session[c].pc = "receive"
    /\ c \notin connected_clients
    /\ session[d].pc = "closed"
    /\ session[d].last[1] = "subscribe"

\* the tasks of _receive_messages that wait in recv of a connection
Reading == {t \in 1..Len(receive_tasks) : receive_tasks[t].pc = "recv"}

\* C37: an adapter never has two tasks of _receive_messages waiting in recv
\* at the same time, across connect, transport failure and reconnect
C37_OneReceiveLoop == Cardinality(Reading) <= 1

(***************************************************************************)
(* subscribe_lighter while the transport of the stream client may fail:    *)
(* until the task of _receive_messages has slept and called connect, the   *)
(* client is still is_connected and the send of a subscribe frame raises.  *)
(***************************************************************************)
\* subscribe_lighter: the send of the subscribe frame raises; _send_message
\* re-raises, subscribe_orderbook leaves the callback and the subscription it
\* stored, and subscribe_lighter logs the error without recording the market
SubscribeSendFails ==
  /\ ~InRestLoop
  /\ \E s \in SubTasks :
       /\ sub_tasks[s].pc = "send"
       /\ ws # 0 /\ ~conns[ws].open
       /\ history' = Append(history, [type |-> "subscribe", task |-> s,
                                      market |-> sub_tasks[s].market, ok |-> FALSE])
       /\ sub_tasks' = [sub_tasks EXCEPT ![s] = IdleSubTask]
  /\ UNCHANGED <<storeVars, call, task, clientVars, sessionVars, tick_runs, venue, ws, connected,
                 subscriptions, receive_tasks, conns, upstream, pushed, delivered, requests,
                 rest_fetch, lighter_subscriptions>>

\* subscribe_lighter: the send of the subscribe frame returns on an open transport
SubscribeSentOpen ==
  /\ ws # 0 /\ conns[ws].open
  /\ SubscribeSent

NextSubscribeFail ==
  \/ SubscribeCall
  \/ RestReturnsBook
  \/ RestReturnsNothing
  \/ SubscribeSentOpen
  \/ SubscribeSendFails
  \/ TransportFails

SpecSubscribeFail == InitSubscribe /\ [][NextSubscribeFail]_vars

\* no call of subscribe_lighter is in progress
NoSubscribeInProgress == \A s \in SubTasks : sub_tasks[s].pc = "idle"

\* C40: whenever no subscribe is in progress, the markets the connection
\* manager tracks as subscribed for venue L are exactly the markets the
\* adapter holds a callback and a subscription to replay for, also after a
\* subscribe whose send failed
C40_BookkeepingAgrees ==
  NoSubscribeInProgress =>
    lighter_subscriptions = {subscriptions[i] : i \in 1..Len(subscriptions)}

(***************************************************************************)
(* Shutdown of the stream client: ConnectionManager.stop calls disconnect  *)
(* of the client, which returns at once when the client is not             *)
(* is_connected, and else sets _should_stop, cancels the task that the     *)
(* last connect made, waits for it, closes the transport and forgets it.   *)
(* The call is suspended while it waits for the cancelled task and while   *)
(* the transport closes; the tasks of _receive_messages run in between.    *)
(***************************************************************************)
\* where a call of stop is: pc, the task it has cancelled, the transport it closes
StopAt(pc, t, w) == [pc |-> pc, task |-> t, ws |-> w]

\* self._receive_task: the task the last call of connect made
receive_task == Len(receive_tasks)

\* stop is called: disconnect returns at once when the client is not
\* is_connected; else it sets _should_stop and clears _connected, cancels
\* _receive_task unless that is done, and waits for it
StopCall ==
  /\ stop = NoStop
  /\ venue_book = NoBook
  /\ IF ~is_connected
     THEN /\ stop' = StopAt("returned", 0, 0)
          /\ UNCHANGED <<should_stop, connected, receive_tasks>>
     ELSE /\ should_stop' = TRUE
          /\ connected' = FALSE
          /\ IF receive_tasks[receive_task].pc # "done"
             THEN /\ receive_tasks' = [receive_tasks EXCEPT ![receive_task].pc = "cancelled"]
                  /\ stop' = StopAt("await_task", receive_task, 0)
             ELSE /\ stop' = StopAt("close", 0, 0)
                  /\ UNCHANGED receive_tasks
  /\ UNCHANGED <<storeVars, call, task, clientVars, tick_runs, subVars, session,
                 hyperliquid_subscriptions, venue_book, calculator, venue, ws, subscriptions, conns,
                 upstream, pushed, delivered>>

\* the cancelled task ends: CancelledError is raised where it was suspended
CancelledTaskEnds ==
  /\ \E t \in 1..Len(receive_tasks) :
       /\ receive_tasks[t].pc = "cancelled"
       /\ receive_tasks' = [receive_tasks EXCEPT ![t] = ReceiveTask("done", 0, 0)]
       /\ stop' = IF stop.pc = "await_task" /\ stop.task = t
                  THEN StopAt("close", 0, 0) ELSE stop
  /\ UNCHANGED <<storeVars, call, task, clientVars, tick_runs, subVars, session,
                 hyperliquid_subscriptions, venue_book, calculator, should_stop, venue, ws, connected,
                 subscriptions, conns, upstream, pushed, delivered>>

\* disconnect goes on after the cancelled task: it closes the transport _ws
\* names now, if any
DisconnectCloses ==
  /\ stop.pc = "close"
  /\ IF ws # 0
     THEN /\ conns' = [conns EXCEPT ![ws].open = FALSE]
          /\ stop' = StopAt("closing", 0, ws)
     ELSE /\ stop' = StopAt("returned", 0, 0)
          /\ UNCHANGED conns
  /\ UNCHANGED <<storeVars, call, task, clientVars, tick_runs, subVars, session,
                 hyperliquid_subscriptions, venue_book, calculator, should_stop, venue, ws, connected,
                 subscriptions, receive_tasks, upstream, pushed, delivered>>

\* close has returned: _ws = None, disconnect and stop return
DisconnectReturns ==
  /\ stop.pc = "closing"
  /\ ws' = 0
  /\ stop' = StopAt("returned", 0, 0)
  /\ UNCHANGED <<storeVars, call, task, clientVars, tick_runs, subVars, session,
                 hyperliquid_subscriptions, venue_book, calculator, should_stop, venue, connected,
                 subscriptions, receive_tasks, conns, upstream, pushed, delivered>>

NextShutdown ==
  \/ VenueSends
  \/ TransportFails
  \/ Receive
  \/ RecvRaises
  \/ ReconnectWake
  \/ ConnectSucceeds
  \/ ConnectFails
  \/ TaskStart
  \/ ResubSent
  \/ ResubSendFails
  \/ StopCall
  \/ CancelledTaskEnds
  \/ DisconnectCloses
  \/ DisconnectReturns

\* the client of one venue after start() and the subscription of one market
InitShutdown ==
  /\ InitStream
  /\ Len(subscriptions) = 1

SpecShutdown == InitShutdown /\ [][NextShutdown]_vars

\* the call of stop has returned
StopReturned == stop.pc = "returned"

\* C38: once stop has returned, no step delivers an update to the store and
\* no step opens a transport
C38_QuietAfterStop ==
  [][StopReturned => (delivered' = delivered /\ Len(conns') = Len(conns))]_vars

\* the shutdown where the event loop runs every task that can run: a recv
\* that can return or raise does, a sleep ends, a connect attempt ends one
\* way or the other, a cancelled task ends, a close returns.  The venue need
\* not send and a transport need not fail.
SpecShutdownFair ==
  /\ InitShutdown
  /\ [][NextShutdown]_vars
  /\ WF_vars(Receive)
  /\ WF_vars(RecvRaises)
  /\ WF_vars(ReconnectWake)
  /\ WF_vars(ConnectSucceeds \/ ConnectFails)
  /\ WF_vars(TaskStart)
  /\ WF_vars(ResubSent)
  /\ WF_vars(ResubSendFails)
  /\ WF_vars(CancelledTaskEnds)
  /\ WF_vars(DisconnectCloses)
  /\ WF_vars(DisconnectReturns)

\* stop has been called
StopCalled == stop.pc # "idle"

\* every task of _receive_messages has ended
ReceiveLoopsExited == \A t \in 1..Len(receive_tasks) : receive_tasks[t].pc = "done"

\* C33: after the shutdown is initiated, every receive loop of the adapter
\* eventually exits, in whatever connection state the adapter was (the part
\* of the claim about the receive loops)
C33_ShutdownTerminates == StopCalled ~> ReceiveLoopsExited

(***************************************************************************)
(* The periodic REST re-snapshot of a venue-L market against the orders    *)
(* resting at the venue.  The venue's book no longer changes: venue_book   *)
(* is fixed from the start.  Diffs that were sent before still arrive, and *)
(* each carries what the venue held when it was sent, so the store drifts; *)
(* the REST endpoint answers every cycle with the orders of venue_book.    *)
(* Cycles are counted up to MaxCycles, so a late diff is delivered only    *)
(* while a cycle that follows it can still run.                            *)
(***************************************************************************)
\* orders resting on one side in a run
MaxOrders == 2

\* the orders of a side at one price, in the order the endpoint lists them
OrdersAt(price) ==
  UNION {[1..n -> {[price |-> price, size |-> s] : s \in 1..MaxSize}] : n \in 1..MaxOrders}

\* the books venue L can hold: bids at price 2, one ask at price 4
VenueBooks == {[bids |-> b, asks |-> <<[price |-> 4, size |-> 1]>>] : b \in OrdersAt(2)}

\* LighterRestClient.get_orderbook_orders: one OrderBookLevel per entry of the
\* response, in the order of the response
RestLevels(orders) == [i \in 1..Len(orders) |-> [price |-> orders[i].price, size |-> orders[i].size]]

\* the (bids, asks) pair the REST client returns for the venue's book
RestResponse(book) == [bids |-> RestLevels(book.bids), asks |-> RestLevels(book.asks)]

\* a later cycle of _periodic_rest_fetch follows this state
CycleFollows == rest_fetch.cycles < MaxCycles \/ rest_fetch.pc = "fetch"

\* the venue had sent a diff before its book stopped changing
LateDiffSent ==
  /\ rest_fetch.cycles < MaxCycles
  /\ VenueSends

\* _receive_messages hands a late diff to the store
LateDiffReceived ==
  /\ CycleFollows
  /\ Receive

\* _periodic_rest_fetch: the endpoint answers for every subscribed market
ResnapshotFetched ==
  /\ rest_fetch.pc = "fetch"
  /\ rest_fetch' = [rest_fetch EXCEPT !.pc = "apply", !.failed = {},
                                      !.remaining = FetchedOrderbooks(rest_fetch.markets, {})]
  /\ UNCHANGED <<storeVars, call, task, clientVars, sessionVars, tick_runs, streamVars,
                 lighter_subscriptions, sub_tasks, requests, history>>

\* _periodic_rest_fetch: initialize_orderbook stores the book the endpoint
\* returned for the market, and the task sleeps
ResnapshotApply ==
  /\ rest_fetch.pc = "apply"
  /\ \E timestamp \in StoreTimestamps :
       InitializeOrderbook(<<"lighter", Head(rest_fetch.remaining)>>,
                           RestResponse(venue_book), timestamp)
  /\ rest_fetch' = [rest_fetch EXCEPT !.remaining = Tail(@),
                                      !.pc = IF Tail(rest_fetch.remaining) = <<>>
                                             THEN "sleep" ELSE "apply"]
  /\ UNCHANGED <<task, clientVars, sessionVars, tick_runs, streamVars, lighter_subscriptions,
                 sub_tasks, requests, history>>

\* venue L connected and market_1 subscribed and tracked; the store holds
\* nothing yet; the venue holds a book that no longer changes
InitResnapshot ==
  /\ StreamStoreInit
  /\ call = NoCall
  /\ task = [t \in Tasks |-> IdleTask]
  /\ connected_clients = {}
  /\ client_subscriptions = EmptyDict
  /\ cadence = IdleCadence
  /\ sent = <<>>
  /\ tick_runs = <<>>
  /\ venue = "lighter"
  /\ connected = TRUE
  /\ ws = 1
  /\ subscriptions = <<"market_1">>
  /\ receive_tasks = <<ReceiveTask("recv", 1, 0)>>
  /\ conns = <<[open |-> TRUE, inbox |-> <<>>]>>
  /\ upstream = <<[ws |-> 1, channel |-> "market_1"]>>
  /\ pushed = 0
  /\ delivered = <<>>
  /\ lighter_subscriptions = {"market_1"}
  /\ sub_tasks = [s \in SubTasks |-> IdleSubTask]
  /\ requests = 0
  /\ rest_fetch = IdleRestFetch
  /\ history = <<>>
  /\ session = [c \in {} |-> NoSession]
  /\ hyperliquid_subscriptions = {}
  /\ calculator = IdleCalculator
  /\ should_stop = FALSE
  /\ stop = NoStop
  /\ venue_book \in VenueBooks

NextResnapshot ==
  \/ LateDiffSent
  \/ LateDiffReceived
  \/ RestCycleStart
  \/ ResnapshotFetched
  \/ ResnapshotApply

\* the periodic task runs: its sleep ends, the endpoint answers, the book is stored
SpecResnapshot ==
  /\ InitResnapshot
  /\ [][NextResnapshot]_vars
  /\ WF_vars(RestCycleStart)
  /\ WF_vars(ResnapshotFetched)
  /\ WF_vars(ResnapshotApply)

\* the side of the store's book holds the prices of the orders of the venue,
\* each with the sum of the sizes of the orders at the price
SideMatches(stored, orders) ==
  /\ DOMAIN stored = {orders[i].price : i \in 1..Len(orders)}
  /\ \A price \in DOMAIN stored : stored[price] = SizeAt(orders, Len(orders), price)

\* the store's book of market_1 equals the venue's book
StoreMatchesVenue ==
  /\ LighterKey \in DOMAIN caches
  /\ SideMatches(caches[LighterKey].bids, venue_book.bids)
  /\ SideMatches(caches[LighterKey].asks, venue_book.asks)

\* C34: for a subscribed market of venue L whose REST endpoint answers, once
\* the venue's book has stopped changing the store's book of the market
\* eventually equals the venue's book and stays equal
C34_ResnapshotRepairs == <>[]StoreMatchesVenue

====
